---- MODULE Spec2Model ----
(***************************************************************************)
(* Model of the skin-rig node merger (rigs/skin/node_merger.py) and of the *)
(* control nodes built on it (rigs/skin/skin_rigs.py).                     *)
(*                                                                         *)
(* Nodes are identified by their index in NodeMerger.nodes (registration   *)
(* order); the index 0 stands for Python's None.  Positions are points on  *)
(* a line measured in units of NodeMerger.epsilon and kept as reduced      *)
(* fractions <<numerator, denominator>>, so that the centroid computed by  *)
(* MergeGroup.build is exact.                                              *)
(***************************************************************************)
EXTENDS Integers, Sequences, FiniteSets, TLC

(* ---------------------------------------------------------------------- *)
(* Bounds of the model                                                     *)
(* ---------------------------------------------------------------------- *)
MaxNodes == 3
MaxPoint == 2
MaxRuns == 2
MaxObjects == 3
MaxCalls == 3
MaxLayered == 4

(* ---------------------------------------------------------------------- *)
(* Program constants                                                       *)
(* ---------------------------------------------------------------------- *)
\* NodeMerger.epsilon: the unit of length of the model.
Epsilon == 1

\* ControlNodeLayer
FREE == 0
MIDDLE_PIVOT == 10
TWEAK == 20

\* ControlNodeIcon
ICON_TWEAK == 0
ICON_MIDDLE_PIVOT == 1
ICON_FREE == 2
ICON_CUSTOM == 3

\* Side and SideZ of the naming utilities
SIDE_LEFT == -1
SIDE_MIDDLE == 0
SIDE_RIGHT == 1

\* BaseSkinChainRig.chain_priority of the rigs of the model: the class
\* default 0, and one rig type that overrides it with a higher priority.
chain_priority == <<0, 1, 0, 0>>

Rigs == DOMAIN chain_priority

\* BaseRig.base_bone of a rig: the bone of the metarig the rig is attached to
base_bone(rig) == <<"ORG", rig>>

\* BaseMergeNode.group_class: MergeGroup, and the classes a rig package may
\* derive from it for its nodes: two direct subclasses and a class that
\* inherits from both.
MergeGroup == "MergeGroup"
GroupClasses == {MergeGroup, "GroupB", "GroupC", "GroupD"}

\* The direct base classes of a group class
Bases(cls) ==
    CASE cls = "GroupB" -> {MergeGroup}
      [] cls = "GroupC" -> {MergeGroup}
      [] cls = "GroupD" -> {"GroupB", "GroupC"}
      [] OTHER -> {}

RECURSIVE issubclass(_, _)
issubclass(cls, base) ==
    cls = base \/ \E b \in Bases(cls) : issubclass(b, base)
Points == 0 .. MaxPoint

None == 0

VARIABLES
    nodes,        \* NodeMerger.nodes, with the fields of every node object
    frozen,       \* NodeMerger.frozen
    final_nodes,  \* NodeMerger.final_nodes
    groups,       \* NodeMerger.groups
    pc,           \* position of NodeMerger.initialize / the generator
    err,          \* the exception that ended the generation, "" if none
    err_args,     \* the arguments its message was formatted with
    runs,         \* the number of calls of NodeMerger.initialize
    op,           \* the operation that made the last step
    tree,         \* initialize: the KDTree, idx -> inserted coordinate
    processed,    \* initialize: local processed
    l_final,      \* initialize: local final_nodes
    l_groups,     \* initialize: local groups
    cur,          \* initialize: loop variable i
    pending,      \* initialize: local pending of the closure loop
    merge_set,    \* initialize: local merge_set
    grp,          \* the MergeGroup being built
    merge_table,  \* build: local merge_table
    bpending,     \* build: local pending
    gen_cur,      \* generate_bones stage: next node to be invoked
    bones,        \* bones made by make_bone: sequence of [maker, role]
    heap,         \* the parent mechanism objects, by identity
    init_cur,     \* initialize stage: next final node to be invoked
    bone_parent,  \* set_bone_parent: dict from made bone to parent bone
    previous      \* the merge result of an earlier generation of the metarig

vars == <<nodes, frozen, final_nodes, groups, pc, err, err_args, runs, op,
          tree, processed, l_final, l_groups, cur, pending, merge_set, grp,
          merge_table, bpending, gen_cur, bones, heap, init_cur, bone_parent,
          previous>>

initVars == <<tree, processed, l_final, l_groups, cur, pending, merge_set>>
buildVars == <<grp, merge_table, bpending>>
genVars == <<gen_cur, bones>>
stageVars == <<heap, init_cur, bone_parent, previous>>

(* ---------------------------------------------------------------------- *)
(* Exact arithmetic on positions                                           *)
(* ---------------------------------------------------------------------- *)
Abs(x) == IF x < 0 THEN -x ELSE x

RECURSIVE GCD(_, _)
GCD(a, b) == IF b = 0 THEN a ELSE GCD(b, a % b)

\* The fraction n/d (d > 0) in lowest terms.
Rat(n, d) == LET g == GCD(Abs(n), d) IN <<n \div g, d \div g>>

RatAdd(p, q) == Rat(p[1] * q[2] + q[1] * p[2], p[2] * q[2])

RatDivInt(p, k) == Rat(p[1], p[2] * k)

RECURSIVE RatSum(_, _)
\* sum(seq, start)
RatSum(seq, start) ==
    IF seq = <<>> THEN start
    ELSE RatSum(Tail(seq), RatAdd(start, Head(seq)))

\* |p - q| <= r for fractions p, q and an integer r
RatWithin(p, q, r) ==
    Abs(p[1] * q[2] - q[1] * p[2]) <= r * p[2] * q[2]

(* ---------------------------------------------------------------------- *)
(* Nodes                                                                   *)
(* ---------------------------------------------------------------------- *)
\* The node classes of skin_rigs.py and the layers they are created with.
NodeTypes ==
    { [kind |-> "control", layer |-> FREE],
      [kind |-> "control", layer |-> TWEAK],
      [kind |-> "cquery", layer |-> FREE] }

\* A name is <<stem, number, side, side_z>>: the stem and number of a bone
\* and its side suffixes, e.g. <<1, 0, SIDE_LEFT, SIDE_MIDDLE>> for "a.L".
\* Names derive from the ORG bones of the owning rig (make_derived_name),
\* so they are unique, and ordered by rig and then by bone.
NewName(rig) ==
    <<rig, Cardinality({i \in 1 .. Len(nodes) : nodes[i].rig = rig}),
      SIDE_MIDDLE, SIDE_MIDDLE>>

\* The place of a side suffix in the order of strings: none, ".L", ".R"
SideRank(side) ==
    IF side = SIDE_MIDDLE THEN 0 ELSE IF side = SIDE_LEFT THEN 1 ELSE 2

RECURSIVE LexLess(_, _)
LexLess(a, b) ==
    /\ b # <<>>
    /\ \/ a = <<>>
       \/ Head(a) < Head(b)
       \/ (Head(a) = Head(b) /\ LexLess(Tail(a), Tail(b)))

\* The order of names as strings
NameLess(a, b) ==
    LexLess(<<a[1], a[2], SideRank(a[4]), SideRank(a[3])>>,
            <<b[1], b[2], SideRank(b[4]), SideRank(b[3])>>)

\* get_name_base_and_sides: the name without its side suffixes, and the sides
get_name_base_and_sides(name) == <<<<name[1], name[2]>>, name[3], name[4]>>

\* change_name_side
change_name_side(name, side, side_z) == <<name[1], name[2], side, side_z>>

\* BaseMergeNode.__init__, MainMergeNode.__init__, ControlBoneNode.__init__.
\* The field falloff stands for the index of the node in its chain and the
\* falloff parameters of its rig: whether the rig wraps the parent of the
\* node, and the <<target, influence>> contributions it then adds.  The
\* field calls records the merge callbacks the node has received, each as
\* <<method, argument, what the callee saw of its master>>.
NewNode(rig, name, point, type) ==
    [ rig |-> rig, name |-> name, kind |-> type.kind, layer |-> type.layer,
      point |-> <<point, 1>>, group |-> None, group_class |-> MergeGroup,
      merged_into |-> None, merged |-> <<>>, merged_master |-> None,
      control_bone |-> None,
      name_split |-> get_name_base_and_sides(name),
      name_merged |-> <<>>, name_merged_split |-> <<>>,
      size |-> <<1, 1>>, icon |-> ICON_TWEAK, rotation |-> <<>>,
      node_parent |-> None, node_needs_parent |-> FALSE,
      node_needs_reparent |-> FALSE,
      mirror_siblings |-> <<>>, mirror_sides_x |-> {}, mirror_sides_z |-> {},
      parent_subrig_cache |-> <<>>, parent_subrig_names |-> <<>>,
      reparent_requests |-> <<>>,
      node_parent_list |-> <<>>, use_mix_parent |-> FALSE,
      matrix |-> <<>>, falloff |-> [wrapped |-> FALSE, items |-> <<>>],
      matched_nodes |-> [assigned |-> FALSE, items |-> <<>>],
      needs_reparent |-> FALSE, rig_org |-> FALSE, parent_calls |-> <<>>,
      reparent_bones |-> <<>>, mix_parent_bone |-> None, requested |-> <<>>,
      calls |-> <<>> ]

\* isinstance(node, MainMergeNode)
is_main(n) == nodes[n].kind = "control"

\* MainMergeNode.is_master_node: read by ControlBoneNode, defined in none of
\* the source files; a master is a node that was not merged into another.
is_master_node(ns, n) == ns[n].merged_into = None

\* Faulty variant of can_merge_into: the layers are compared the wrong way
\* round (merging down the layers).
can_merge_into_down(n, other) ==
    LET dprio == chain_priority[nodes[n].rig] - chain_priority[nodes[other].rig]
    IN  /\ dprio <= 0
        /\ (nodes[n].layer >= nodes[other].layer \/ dprio < 0)

\* ControlBoneNode.can_merge_into
can_merge_into(n, other) ==
    LET dprio == chain_priority[nodes[n].rig] - chain_priority[nodes[other].rig]
    IN  /\ dprio <= 0
        /\ (nodes[n].layer <= nodes[other].layer \/ dprio < 0)

\* ControlBoneNode.get_merge_priority
get_merge_priority(n, other) ==
    IF nodes[n].layer <= nodes[other].layer
    THEN -Abs(nodes[n].layer - nodes[other].layer)
    ELSE -Abs(nodes[n].layer - nodes[other].layer) - 100

(* ---------------------------------------------------------------------- *)
(* Python built-ins                                                        *)
(* ---------------------------------------------------------------------- *)
\* max(s, key=...): the index of the first maximal key, keys[i] being the
\* key of s[i]
MaxFirst(keys) ==
    CHOOSE i \in 1 .. Len(keys) :
        /\ \A j \in 1 .. Len(keys) : keys[j] <= keys[i]
        /\ \A j \in 1 .. (i - 1) : keys[j] < keys[i]

\* [x for x in s if x in S]
Filter(s, S) == LET In(x) == x \in S IN SelectSeq(s, In)

RECURSIVE SortByName_unsorted(_)
\* Faulty variant of SortByName: the list is left in the order of the set.
SortByName_unsorted(S) ==
    IF S = {} THEN <<>>
    ELSE LET m == CHOOSE x \in S : \A y \in S : x <= y
         IN  <<m>> \o SortByName_unsorted(S \ {m})

RECURSIVE SortByName(_)
\* list(S) followed by list.sort(key=name): a stable sort of a set of ints
SortByName(S) ==
    IF S = {} THEN <<>>
    ELSE LET m == CHOOSE x \in S : \A y \in S \ {x} :
                      \/ NameLess(nodes[x].name, nodes[y].name)
                      \/ (nodes[x].name = nodes[y].name /\ x < y)
         IN  <<m>> \o SortByName(S \ {m})

SeqSet(s) == {s[i] : i \in 1 .. Len(s)}

\* KDTree.find_range(co, radius): the indices inserted within radius of co
find_range(co, radius) ==
    {idx \in 1 .. Len(tree) : RatWithin(tree[idx], co, radius)}

(* ---------------------------------------------------------------------- *)
(* Initial state: NodeMerger.__init__                                      *)
(* ---------------------------------------------------------------------- *)
NoResult == [recorded |-> FALSE, order |-> <<>>, result |-> {}]

NoGroup == [group_class |-> MergeGroup, nodes |-> <<>>, main_nodes |-> <<>>,
            query_nodes |-> <<>>, final_nodes |-> <<>>]

Init ==
    /\ nodes = <<>>
    /\ final_nodes = <<>>
    /\ groups = <<>>
    /\ frozen = FALSE
    /\ pc = "register"
    /\ err = ""
    /\ err_args = <<>>
    /\ runs = 0
    /\ op = "__init__"
    /\ tree = <<>>
    /\ processed = {}
    /\ l_final = <<>>
    /\ l_groups = <<>>
    /\ cur = 0
    /\ pending = {}
    /\ merge_set = {}
    /\ grp = NoGroup
    /\ merge_table = <<>>
    /\ bpending = {}
    /\ gen_cur = 0
    /\ bones = <<>>
    /\ heap = <<>>
    /\ init_cur = 0
    /\ bone_parent = <<>>
    /\ previous = NoResult

\* An exception leaves the call and ends the generation: the locals of
\* initialize and build are gone with their frames.  The group objects made
\* so far stay alive, the nodes refer to them.
RaiseWith(e, args) ==
    /\ pc' = "error"
    /\ err' = e
    /\ err_args' = args
    /\ tree' = <<>>
    /\ processed' = {}
    /\ l_final' = <<>>
    /\ cur' = 0
    /\ pending' = {}
    /\ merge_set' = {}
    /\ merge_table' = <<>>
    /\ bpending' = {}

Raise(e) == RaiseWith(e, <<>>)

(* ---------------------------------------------------------------------- *)
(* NodeMerger.register_node                                                *)
(* ---------------------------------------------------------------------- *)
\* Faulty variant of register_node: the assertion is missing.
register_node_unchecked(node) ==
    /\ op' = "register_node"
    /\ nodes' = Append(nodes, node)
    /\ UNCHANGED <<frozen, runs, final_nodes, groups, pc, err, err_args>>
    /\ UNCHANGED <<initVars, buildVars, genVars>>
    /\ UNCHANGED stageVars

register_node(node) ==
    /\ op' = "register_node"
    /\ IF frozen
       THEN \* assert not self.frozen
            /\ Raise("AssertionError: not self.frozen")
            /\ UNCHANGED <<nodes, frozen, runs, final_nodes, groups>>
            /\ UNCHANGED <<l_groups, grp, genVars>>
       ELSE /\ nodes' = Append(nodes, node)
            /\ UNCHANGED <<frozen, runs, final_nodes, groups, pc, err, err_args>>
            /\ UNCHANGED <<initVars, buildVars, genVars>>
    /\ UNCHANGED stageVars

\* The nodes the rigs may construct: any while the registration list has
\* room; once the merger is frozen the argument does not matter.
RegisterInputs ==
    IF frozen
    THEN {NewNode(1, NewName(1), 0, [kind |-> "control", layer |-> FREE])}
    ELSE IF Len(nodes) < MaxNodes
    THEN {NewNode(rig, NewName(rig), point, type) :
              rig \in Rigs, point \in Points, type \in NodeTypes}
    ELSE {}

\* A rig constructs a node, which registers itself (BaseMergeNode.__init__).
RegisterNode ==
    /\ err = ""
    /\ \E node \in RegisterInputs : register_node(node)

(* ---------------------------------------------------------------------- *)
(* NodeMerger.initialize                                                   *)
(* ---------------------------------------------------------------------- *)
\* Lines 56-67: freeze, build the KDTree, start the loop over the nodes.
InitializeBegin ==
    /\ pc = "register"
    /\ err = ""
    /\ op' = "initialize"
    /\ frozen' = TRUE
    /\ runs' = runs + 1
    /\ tree' = [i \in 1 .. Len(nodes) |-> nodes[i].point]
    /\ processed' = {}
    /\ l_final' = <<>>
    /\ l_groups' = <<>>
    /\ cur' = 1
    /\ pc' = "scan"
    /\ UNCHANGED <<nodes, final_nodes, groups, err, err_args, pending, merge_set>>
    /\ UNCHANGED <<buildVars, genVars>>
    /\ UNCHANGED stageVars

\* Lines 69-71: a node that is already processed is skipped.
InitializeSkip ==
    /\ pc = "scan"
    /\ cur <= Len(nodes)
    /\ cur \in processed
    /\ op' = "initialize"
    /\ cur' = cur + 1
    /\ UNCHANGED <<nodes, frozen, runs, final_nodes, groups, pc, err, err_args, tree,
                   processed, l_final, l_groups, pending, merge_set>>
    /\ UNCHANGED <<buildVars, genVars>>
    /\ UNCHANGED stageVars

\* Lines 73-75: start a cluster at the first node not yet processed.
ClusterBegin ==
    /\ pc = "scan"
    /\ cur <= Len(nodes)
    /\ cur \notin processed
    /\ op' = "initialize"
    /\ pending' = {cur}
    /\ merge_set' = {cur}
    /\ pc' = "closure"
    /\ UNCHANGED <<nodes, frozen, runs, final_nodes, groups, err, err_args, tree, processed,
                   l_final, l_groups, cur>>
    /\ UNCHANGED <<buildVars, genVars>>
    /\ UNCHANGED stageVars

\* Faulty variant of Added: a single fixed-radius query around the node the
\* cluster started from.
Added_start_only(pend) == find_range(nodes[cur].point, Epsilon)

\* Lines 78-81: the points in range of any pending node
Added(pend) == UNION {find_range(nodes[j].point, Epsilon) : j \in pend}

\* Lines 77-83: one iteration of the closure loop.
ClosureStep ==
    /\ pc = "closure"
    /\ pending # {}
    /\ op' = "initialize"
    /\ pending' = Added(pending) \ merge_set
    /\ merge_set' = merge_set \cup Added(pending)
    /\ UNCHANGED <<nodes, frozen, runs, final_nodes, groups, pc, err, err_args, tree,
                   processed, l_final, l_groups, cur>>
    /\ UNCHANGED <<buildVars, genVars>>
    /\ UNCHANGED stageVars

RECURSIVE ResolveGroupClass(_, _)
\* Lines 95-105: the loop over merge_list[1:], group_class being the class
\* resolved so far; the result tells whether the loop raised, and for which
\* item and classes.
ResolveGroupClass(group_class, items) ==
    IF items = <<>>
    THEN [raised |-> FALSE, group_class |-> group_class,
          cls |-> group_class, item |-> None]
    ELSE LET item == Head(items)
             cls == nodes[item].group_class
         IN  IF issubclass(cls, group_class)
             THEN ResolveGroupClass(cls, Tail(items))
             ELSE IF ~issubclass(group_class, cls)
             THEN [raised |-> TRUE, group_class |-> group_class,
                   cls |-> cls, item |-> item]
             ELSE ResolveGroupClass(group_class, Tail(items))

\* Lines 93-105: the group class of a cluster
GroupClassOf(merge_list) ==
    ResolveGroupClass(nodes[merge_list[1]].group_class, Tail(merge_list))

\* MergeGroup.__init__, called through the class of the group
NewGroup(group_class, merge_list) ==
    [ group_class |-> group_class,
      nodes |-> merge_list,
      main_nodes |-> SelectSeq(merge_list, is_main),
      query_nodes |-> LET not_main(n) == ~is_main(n)
                      IN  SelectSeq(merge_list, not_main),
      final_nodes |-> <<>> ]

\* Lines 85-107: the cluster is closed; check it, mark it processed,
\* resolve its group class and construct its group (every member's group
\* becomes the new group, the next one to be appended to the local list of
\* groups).
ClusterDone ==
    /\ pc = "closure"
    /\ pending = {}
    /\ op' = "initialize"
    /\ IF merge_set \cap processed # {}
       THEN \* assert merge_set.isdisjoint(processed)
            /\ Raise("AssertionError: merge_set.isdisjoint(processed)")
            /\ UNCHANGED <<nodes, grp>>
       ELSE IF GroupClassOf(SortByName(merge_set)).raised
       THEN \* raise MetarigError('Group class conflict: ...')
            LET r == GroupClassOf(SortByName(merge_set))
            IN  /\ RaiseWith("MetarigError: Group class conflict",
                             [group_class |-> r.group_class, cls |-> r.cls,
                              name |-> nodes[r.item].name,
                              base_bone |-> base_bone(nodes[r.item].rig)])
                /\ UNCHANGED <<nodes, grp>>
       ELSE /\ processed' = processed \cup merge_set
            /\ grp' = NewGroup(GroupClassOf(SortByName(merge_set)).group_class,
                               SortByName(merge_set))
            /\ nodes' = [i \in 1 .. Len(nodes) |->
                          IF i \in merge_set
                          THEN [nodes[i] EXCEPT !.group = Len(l_groups) + 1]
                          ELSE nodes[i]]
            /\ pc' = "build"
            /\ UNCHANGED <<err, err_args, tree, l_final, cur, pending, merge_set,
                           merge_table, bpending>>
    /\ UNCHANGED <<frozen, runs, final_nodes, groups, l_groups>>
    /\ UNCHANGED genVars
    /\ UNCHANGED stageVars

(* ---------------------------------------------------------------------- *)
(* MergeGroup.build                                                        *)
(* ---------------------------------------------------------------------- *)
\* Lines 135-138: rig_table[rig], the main nodes of the group owned by rig
rig_table(g, rig) ==
    LET of_rig(n) == nodes[n].rig = rig IN SelectSeq(g.main_nodes, of_rig)

\* Line 145: the rigs of the other buckets of rig_table
OtherRigs(g, node) ==
    {rig \in Rigs : rig_table(g, rig) # <<>> /\ rig # nodes[node].rig}

\* Faulty variant of MergeTargets: the candidates are all the other nodes of
\* the group, not those of one other rig.
MergeTargets_any_rig(g, node, rig) ==
    LET allowed(n) == n # node /\ can_merge_into(node, n)
    IN  SelectSeq(g.main_nodes, allowed)

\* Line 146: the nodes of a bucket that node is allowed to merge into
MergeTargets(g, node, rig) ==
    LET allowed(n) == can_merge_into(node, n)
    IN  SelectSeq(rig_table(g, rig), allowed)

\* Faulty variant of BestTarget: the first allowed node of the bucket.
BestTarget_first(g, node, rig) == MergeTargets(g, node, rig)[1]

\* Line 147: max(nodes, key=node.get_merge_priority)
BestTarget(g, node, rig) ==
    LET nodes_ == MergeTargets(g, node, rig)
    IN  nodes_[MaxFirst([k \in 1 .. Len(nodes_) |->
                            get_merge_priority(node, nodes_[k])])]

\* Line 147: max() of an empty list raises ValueError
MergeTableRaises(g) ==
    \E node \in SeqSet(g.main_nodes) :
        \E rig \in OtherRigs(g, node) : MergeTargets(g, node, rig) = <<>>

\* Lines 141-147: the 'can merge' table, when no max() raises
BuildTable(g) ==
    [n \in SeqSet(g.main_nodes) |->
        {node \in SeqSet(g.main_nodes) :
            \E rig \in OtherRigs(g, node) : BestTarget(g, node, rig) = n}]

\* Lines 131-152: the rig buckets, the merge table and the pending set.
BuildMergeTable ==
    /\ pc = "build"
    /\ op' = "build"
    /\ IF MergeTableRaises(grp)
       THEN Raise("ValueError: max() arg is an empty sequence")
       ELSE /\ merge_table' = BuildTable(grp)
            /\ bpending' = SeqSet(grp.main_nodes)
            /\ pc' = "elect"
            /\ UNCHANGED <<err, err_args, tree, processed, l_final, cur, pending,
                           merge_set>>
    /\ UNCHANGED <<nodes, frozen, runs, final_nodes, groups, grp, l_groups>>
    /\ UNCHANGED genVars
    /\ UNCHANGED stageVars

\* Faulty variant of BestPending: the last pending node of main_nodes.
BestPending_last(g, table, pend) ==
    Filter(g.main_nodes, pend)[Len(Filter(g.main_nodes, pend))]

\* Line 157: the pending node with the largest child set, the first of them
\* in the order of main_nodes
BestPending(g, table, pend) ==
    LET nodes_ == Filter(g.main_nodes, pend)
    IN  nodes_[MaxFirst([k \in 1 .. Len(nodes_) |->
                            Cardinality(table[nodes_[k]])])]

\* Faulty variant of Centroid: the sum is divided by the number of children.
Centroid_over_children(ns, best, children) ==
    RatDivInt(RatSum([k \in 1 .. Len(children) |-> ns[children[k]].point],
                     ns[best].point),
              IF children = <<>> THEN 1 ELSE Len(children))

\* Line 161: the centroid of best and its children
Centroid(ns, best, children) ==
    RatDivInt(RatSum([k \in 1 .. Len(children) |-> ns[children[k]].point],
                     ns[best].point),
              Len(children) + 1)

\* Faulty variant of LinkChildren: child.merge_into(best) is missing.
LinkChildren_no_merge_into(ns, best, children, point) ==
    [i \in 1 .. Len(ns) |->
        IF i = best
        THEN [ns[i] EXCEPT
                 !.point = point, !.merged = @ \o children,
                 !.calls = @ \o [k \in 1 .. Len(children) |->
                                    <<"merge_from", children[k], 0, 0>>]]
        ELSE IF i \in SeqSet(children)
        THEN [ns[i] EXCEPT !.point = point]
        ELSE ns[i]]

\* Lines 163-166: child.point = best.point; best.merge_from(child);
\* child.merge_into(best), for every child in the order of main_nodes
LinkChildren(ns, best, children, point) ==
    [i \in 1 .. Len(ns) |->
        IF i = best
        THEN [ns[i] EXCEPT
                 !.point = point, !.merged = @ \o children,
                 !.calls = @ \o [k \in 1 .. Len(children) |->
                                    <<"merge_from", children[k], 0, 0>>]]
        ELSE IF i \in SeqSet(children)
        THEN [ns[i] EXCEPT !.point = point, !.merged_into = best,
                           !.calls = Append(@, <<"merge_into", best, 0, 0>>)]
        ELSE ns[i]]

\* MainMergeNode.get_merged_siblings
get_merged_siblings(ns, n) ==
    <<ns[n].merged_master>> \o ns[ns[n].merged_master].merged

RECURSIVE DictSet(_, _, _)
\* d[key] = value on a dict kept as the sequence of its <<key, value>> items
DictSet(d, key, value) ==
    IF d = <<>> THEN <<<<key, value>>>>
    ELSE IF Head(d)[1] = key THEN <<<<key, value>>>> \o Tail(d)
    ELSE <<Head(d)>> \o DictSet(Tail(d), key, value)

\* key in d
DictHas(d, key) == \E k \in 1 .. Len(d) : d[k][1] = key

\* d.get(key, None)
DictGet(d, key) ==
    IF \E k \in 1 .. Len(d) : d[k][1] = key
    THEN d[CHOOSE k \in 1 .. Len(d) : d[k][1] = key][2]
    ELSE None

\* list(d.values())
DictValues(d) == [k \in 1 .. Len(d) |-> d[k][2]]

RECURSIVE MirrorSiblingsOf(_, _, _, _)
\* Lines 158-160: the loop that fills mirror_siblings of node n
MirrorSiblingsOf(ns, n, siblings, d) ==
    IF siblings = <<>> THEN d
    ELSE LET node == Head(siblings)
         IN  MirrorSiblingsOf(ns, n, Tail(siblings),
                 IF ns[node].name_split[1] = ns[n].name_split[1]
                 THEN DictSet(d, ns[node].name_split, node)
                 ELSE d)

\* Line 164 fails: the assertion of find_mirror_siblings on node n, whose
\* mirror_siblings are assigned and whose merged name is not
MirrorAssertFailed(ns, n) ==
    ns[n].mirror_siblings # <<>> /\ ns[n].name_merged_split = <<>>

\* ControlBoneNode.find_mirror_siblings
find_mirror_siblings(ns, n) ==
    LET d == CHOOSE res \in
                 {MirrorSiblingsOf(ns, n, get_merged_siblings(ns, n), <<>>)} :
                     TRUE
        mirrors == DictValues(d)
        sides_x == {ns[mirrors[k]].name_split[2] : k \in 1 .. Len(mirrors)}
        sides_z == {ns[mirrors[k]].name_split[3] : k \in 1 .. Len(mirrors)}
        side_x == IF Cardinality(sides_x) > 1 THEN SIDE_MIDDLE
                  ELSE ns[n].name_split[2]
        side_z == IF Cardinality(sides_z) > 1 THEN SIDE_MIDDLE
                  ELSE ns[n].name_split[3]
        s1 == [ns EXCEPT ![n].mirror_siblings = d,
                         ![n].mirror_sides_x = sides_x,
                         ![n].mirror_sides_z = sides_z,
                         ![n].name_merged = <<>>,
                         ![n].name_merged_split = <<>>]
    IN  IF DictGet(d, ns[n].name_split) # n
        THEN \* assert self.mirror_siblings[self.name_split] is self
             s1
        ELSE [s1 EXCEPT
                 ![n].name_merged = change_name_side(ns[n].name, side_x, side_z),
                 ![n].name_merged_split = <<ns[n].name_split[1], side_x, side_z>>]

\* Line 176: the three names tried by get_best_mirror, in their order
MirrorFlips(name_split) ==
    <<<<name_split[1], -name_split[2], -name_split[3]>>,
      <<name_split[1], -name_split[2], name_split[3]>>,
      <<name_split[1], name_split[2], -name_split[3]>>>>

\* ControlBoneNode.get_best_mirror: the first entry of mirror_siblings under
\* a flipped name that is not the node itself, or None
get_best_mirror(ns, n) ==
    LET flips == MirrorFlips(ns[n].name_split)
        found == {k \in 1 .. Len(flips) :
                     /\ DictGet(ns[n].mirror_siblings, flips[k]) # None
                     /\ DictGet(ns[n].mirror_siblings, flips[k]) # n}
    IN  IF found = {} THEN None
        ELSE DictGet(ns[n].mirror_siblings,
                     flips[CHOOSE k \in found : \A j \in found : k <= j])

\* The record of a call of merge_done on node n: on a follower, the
\* merged_master of its master and the number of followers the master has;
\* on a master, the number of its followers that were told merge_into.
MergeDoneCall(ns, n) ==
    IF ns[n].merged_into # None
    THEN <<"merge_done", ns[n].merged_into,
           ns[ns[n].merged_into].merged_master,
           Len(ns[ns[n].merged_into].merged)>>
    ELSE <<"merge_done", None, None,
           Cardinality({k \in 1 .. Len(ns[n].merged) :
                           ns[ns[n].merged[k]].merged_into = n})>>

\* Faulty variant of merge_done_children: the followers are not called.
merge_done_children_none(ns, children) == ns

RECURSIVE merge_done(_, _)
RECURSIVE merge_done_children(_, _)
\* ControlBoneNode.merge_done and MainMergeNode.merge_done.  When the
\* assertion of find_mirror_siblings fails on a node, the calls that would
\* have followed are not made.
merge_done(ns, n) ==
    LET s0 == [ns EXCEPT ![n].calls = Append(@, MergeDoneCall(ns, n))]
        s1 == IF is_master_node(s0, n)
              THEN [s0 EXCEPT ![n].parent_subrig_cache = <<>>,
                              ![n].parent_subrig_names = <<>>,
                              ![n].reparent_requests = <<>>]
              ELSE s0
        s2 == [s1 EXCEPT ![n].merged_master =
                  IF s1[n].merged_into # None THEN s1[n].merged_into ELSE n]
    IN  CHOOSE res \in
            {IF \E c \in SeqSet(ns[n].merged) : MirrorAssertFailed(s3, c)
             THEN s3
             ELSE find_mirror_siblings(s3, n) :
                 s3 \in {merge_done_children(s2, ns[n].merged)}} : TRUE

merge_done_children(ns, children) ==
    IF children = <<>> THEN ns
    ELSE CHOOSE res \in
             {IF MirrorAssertFailed(s1, Head(children)) THEN s1
              ELSE merge_done_children(s1, Tail(children)) :
                  s1 \in {merge_done(ns, Head(children))}} : TRUE

\* Faulty variant of Remaining: the children stay pending.
Remaining_keeps_children(pend, best, child_set) == pend \ {best}

\* Faulty variant of Remaining: nothing is removed from pending.
Remaining_nothing(pend, best, child_set) == pend

\* Lines 174-175: pending.remove(best); pending -= child_set
Remaining(pend, best, child_set) == (pend \ {best}) \ child_set

\* Lines 154-178: one iteration of the election loop.
ElectStep ==
    /\ pc = "elect"
    /\ bpending # {}
    /\ op' = "build"
    /\ \E best \in {BestPending(grp, merge_table, bpending)} :
       \E child_set \in {merge_table[best]} :
       \E children \in {Filter(grp.main_nodes, child_set)} :
       \E linked \in {LinkChildren(nodes, best, children,
                                   Centroid(nodes, best, children))} :
       \E left \in {Remaining(bpending, best, child_set)} :
       \E done \in {merge_done(linked, best)} :
           /\ nodes' = done
           /\ grp' = [grp EXCEPT !.final_nodes = Append(@, best)]
           /\ IF \E n \in {best} \cup child_set : MirrorAssertFailed(done, n)
              THEN \* the assertion of line 164 ends best.merge_done()
                   Raise("AssertionError: mirror_siblings[name_split] is self")
              ELSE /\ l_final' = Append(l_final, best)
                   /\ bpending' = left
                   /\ merge_table' = [n \in DOMAIN merge_table |->
                                         merge_table[n] \cap left]
                   /\ UNCHANGED <<pc, err, err_args, tree, processed, cur,
                                  pending, merge_set>>
    /\ UNCHANGED <<frozen, runs, final_nodes, groups, l_groups>>
    /\ UNCHANGED genVars
    /\ UNCHANGED stageVars

\* Faulty variant of AppendQueryNodes: the query nodes are put in front.
AppendQueryNodes_in_front(final, query_nodes) == query_nodes \o final

\* Line 180: final_nodes += self.query_nodes
AppendQueryNodes(final, query_nodes) == final \o query_nodes

\* Line 180 and lines 110, 69: the query nodes follow the masters, the group
\* is recorded and the loop goes on to the next node.
BuildEnd ==
    /\ pc = "elect"
    /\ bpending = {}
    /\ op' = "build"
    /\ l_final' = AppendQueryNodes(l_final, grp.query_nodes)
    /\ l_groups' = Append(l_groups, grp)
    /\ cur' = cur + 1
    /\ pc' = "scan"
    /\ UNCHANGED <<nodes, frozen, runs, final_nodes, groups, err, err_args, tree, processed,
                   pending, merge_set>>
    /\ UNCHANGED <<buildVars, genVars>>
    /\ UNCHANGED stageVars

\* Lines 112-113: the results are published when the loop is over.
InitializeEnd ==
    /\ pc = "scan"
    /\ cur > Len(nodes)
    /\ op' = "initialize"
    /\ final_nodes' = l_final
    /\ groups' = l_groups
    /\ pc' = "done"
    /\ gen_cur' = 1
    /\ UNCHANGED <<nodes, frozen, runs, err, err_args, bones>>
    /\ UNCHANGED <<initVars, buildVars>>
    /\ UNCHANGED stageVars

(* ---------------------------------------------------------------------- *)
(* Generation stages after the merge                                       *)
(* ---------------------------------------------------------------------- *)
\* ControlBoneNode.control_bone
control_bone(n) == nodes[nodes[n].merged_master].control_bone

\* Faulty variant of ReparentMissing: the test of line 304 is missing.
ReparentMissing_always(reparent_bones, parent) == TRUE

\* Line 304: id(parent) not in self.reparent_bones.  The keys are the
\* identities of the parents, their references on the heap.
ReparentMissing(reparent_bones, parent) == ~DictHas(reparent_bones, parent)

RECURSIVE MakeReparents(_, _, _, _)
\* Lines 303-306: the loop over reparent_requests of the master n.  The
\* bone is named after parent_subrig_names[id(parent)].
MakeReparents(n, requests, bs, reparent_bones) ==
    IF requests = <<>> THEN [bones |-> bs, reparent_bones |-> reparent_bones]
    ELSE IF ReparentMissing(reparent_bones, Head(requests))
    THEN MakeReparents(n, Tail(requests),
             Append(bs, [maker |-> n, role |-> "reparent",
                         name |-> DictGet(nodes[n].parent_subrig_names,
                                          Head(requests))]),
             DictSet(reparent_bones, Head(requests), Len(bs) + 1))
    ELSE MakeReparents(n, Tail(requests), bs, reparent_bones)

\* Lines 286-306: the control bone, the mix parent bone or the entry of the
\* control bone under the parent of the node, and the reparent bones
MasterBones(n) ==
    LET made == Append(bones, [maker |-> n, role |-> "control"])
        mixed == IF nodes[n].use_mix_parent
                 THEN Append(made, [maker |-> n, role |-> "mix_parent"])
                 ELSE made
        first == IF nodes[n].use_mix_parent THEN <<>>
                 ELSE <<<<nodes[n].node_parent, Len(made)>>>>
    IN  CHOOSE res \in
            { [bones |-> r.bones,
               nodes |-> [nodes EXCEPT
                   ![n].control_bone = Len(made),
                   ![n].mix_parent_bone =
                       IF nodes[n].use_mix_parent THEN Len(mixed) ELSE None,
                   ![n].reparent_bones = r.reparent_bones]] :
              r \in {MakeReparents(n, nodes[n].reparent_requests, mixed,
                                   first)} } :
            TRUE

\* Faulty variant of generate_bones: the master test is missing.
generate_bones_unguarded(n) ==
    IF nodes[n].kind = "control"
    THEN \E r \in {MasterBones(n)} : bones' = r.bones /\ nodes' = r.nodes
    ELSE UNCHANGED <<bones, nodes>>

\* ControlBoneNode.generate_bones: the master makes its bones; on any other
\* node the stage does nothing.
generate_bones(n) ==
    IF nodes[n].kind = "control" /\ is_master_node(nodes, n)
    THEN \E r \in {MasterBones(n)} : bones' = r.bones /\ nodes' = r.nodes
    ELSE UNCHANGED <<bones, nodes>>

\* ControlBoneNode.get_reparent_bone on the master m: reparent_bones[id(parent)]
get_reparent_bone(ns, m, parent) ==
    IF DictHas(ns[m].reparent_bones, parent)
    THEN [raised |-> "", value |-> DictGet(ns[m].reparent_bones, parent)]
    ELSE [raised |-> "KeyError", value |-> None]

\* The generate_bones stage invokes the nodes one after the other.
GenerateBones ==
    /\ pc = "done"
    /\ err = ""
    /\ gen_cur <= Len(nodes)
    /\ op' = "generate_bones"
    /\ generate_bones(gen_cur)
    /\ gen_cur' = gen_cur + 1
    /\ UNCHANGED <<frozen, runs, final_nodes, groups, pc, err, err_args>>
    /\ UNCHANGED <<initVars, buildVars>>
    /\ UNCHANGED stageVars

(* ---------------------------------------------------------------------- *)
(* Specification                                                           *)
(* ---------------------------------------------------------------------- *)
Next ==
    \/ RegisterNode
    \/ InitializeBegin
    \/ InitializeSkip
    \/ ClusterBegin
    \/ ClosureStep
    \/ ClusterDone
    \/ BuildMergeTable
    \/ ElectStep
    \/ BuildEnd
    \/ InitializeEnd
    \/ GenerateBones

Spec == Init /\ [][Next]_vars

(* ---------------------------------------------------------------------- *)
(* Parent mechanism generators: ControlBoneParentOrg and                   *)
(* ControlBoneParentOffset                                                 *)
(* ---------------------------------------------------------------------- *)
\* Bones are named <<"ORG", k>> (a bone of the metarig) or <<"MCH", k>>
\* (the k-th bone made by make_bone).
MadeBone(k) == <<"MCH", k>>

\* ControlBoneParentOrg.__init__ (with the fields of the other class unused)
ControlBoneParentOrg(org) ==
    [ cls |-> "ControlBoneParentOrg", output_bone |-> org,
      owner |-> None, parent |-> None, node |-> None,
      copy_local |-> <<>>, add_local |-> <<>>, add_orientations |-> <<>>,
      enabled |-> 0, generated |-> FALSE, parented |-> FALSE,
      rigged |-> FALSE, drivers |-> <<>>,
      mch_bones |-> <<>>, log |-> <<>> ]

\* ControlBoneParentOffset.__init__: enabled counts the calls of
\* enable_component, generated, parented and rigged tell which stages have
\* run, drivers holds the make_driver calls of rig_bones, log is the record
\* of the contributions the rigs have asked for.
ControlBoneParentOffset(rig, parent, node) ==
    [ cls |-> "ControlBoneParentOffset", output_bone |-> <<"ORG", 0>>,
      owner |-> rig, parent |-> parent, node |-> node,
      copy_local |-> <<>>, add_local |-> <<>>, add_orientations |-> <<>>,
      enabled |-> 0, generated |-> FALSE, parented |-> FALSE,
      rigged |-> FALSE, drivers |-> <<>>,
      mch_bones |-> <<>>, log |-> <<>> ]

\* isinstance(parent, ControlBoneParentOffset)
IsOffset(h, ref) == h[ref].cls = "ControlBoneParentOffset"

\* Faulty variant of wrap: a new generator is always constructed.
wrap_always(h, owner, parent, node) ==
    [ heap |-> Append(h, ControlBoneParentOffset(owner, parent, node)),
      ref |-> Len(h) + 1 ]

\* ControlBoneParentOffset.wrap: the heap after the call and the reference
\* returned
wrap(h, owner, parent, node) ==
    IF IsOffset(h, parent)
    THEN [ heap |-> h, ref |-> parent ]
    ELSE [ heap |-> Append(h, ControlBoneParentOffset(owner, parent, node)),
           ref |-> Len(h) + 1 ]

\* The text of a driver expression is the sequence of its pieces: a piece
\* is <<"text", t>> or a placeholder <<"$", name>> of string.Template.  A
\* variable name is a sequence too: <<"x">> for "x" and <<"x", 1>> for "x_1".
Placeholder(name) == <<"$", name>>

Text(t) == <<"text", t>>

\* The expression "$var"
VarExpr == <<Placeholder(<<"var">>)>>

\* ControlBoneParentOffset.add_copy_local_location on the object o.  The
\* influence is [callable, value]; no influence_expr is the empty sequence.
add_copy_local_location(o, target, influence, influence_expr, influence_vars) ==
    LET d == IF ~DictHas(o.copy_local, target)
             THEN DictSet(o.copy_local, target, <<0, <<>>, <<>>>>)
             ELSE o.copy_local
        v == DictGet(d, target)
        w == IF influence_expr # <<>>
             THEN <<v[1], Append(v[2], <<influence_expr, influence_vars>>),
                    v[3]>>
             ELSE IF influence.callable
             THEN <<v[1], v[2], Append(v[3], influence)>>
             ELSE <<v[1] + influence.value, v[2], v[3]>>
    IN  [o EXCEPT !.copy_local = DictSet(d, target, w)]

\* round(x * 10000) of a component given in units of 0.00001: Python rounds
\* a half to the even neighbour
Round4(c) ==
    LET q == c \div 10
        r == c % 10
    IN  IF r < 5 THEN q
        ELSE IF r > 5 THEN q + 1
        ELSE IF q % 2 = 0 THEN q ELSE q + 1

\* Faulty variant of OrientationKey: the orientation is not rounded.
OrientationKey_exact(orientation) == orientation

\* Line 510: the key of an orientation
OrientationKey(orientation) ==
    [k \in 1 .. Len(orientation) |-> Round4(orientation[k])]

\* ControlBoneParentOffset.add_location_driver on the object o (index counts
\* from 0)
add_location_driver(o, orientation, index, expression, variables) ==
    LET key == OrientationKey(orientation)
        fresh == ~DictHas(o.add_local, key)
        orients == IF fresh
                   THEN DictSet(o.add_orientations, key, orientation)
                   ELSE o.add_orientations
        d == IF fresh
             THEN DictSet(o.add_local, key, <<<<>>, <<>>, <<>>>>)
             ELSE o.add_local
        v == DictGet(d, key)
        w == [v EXCEPT ![index + 1] = Append(@, <<expression, variables>>)]
    IN  [o EXCEPT !.add_orientations = orients,
                  !.add_local = DictSet(d, key, w)]

\* dict.__eq__: the same keys with equal values, in any order
DictEq(d1, d2) == SeqSet(d1) = SeqSet(d2)

RECURSIVE ParentEq(_, _, _)
\* ControlBoneParentOrg.__eq__ and ControlBoneParentOffset.__eq__
ParentEq(h, a, b) ==
    IF ~IsOffset(h, a)
    THEN ~IsOffset(h, b) /\ h[a].output_bone = h[b].output_bone
    ELSE /\ IsOffset(h, b)
         /\ ParentEq(h, h[a].parent, h[b].parent)
         /\ DictEq(h[a].copy_local, h[b].copy_local)
         /\ DictEq(h[a].add_local, h[b].add_local)

RECURSIVE output_bone(_, _)
\* ControlBoneParentOrg.output_bone and ControlBoneParentOffset.output_bone
output_bone(h, ref) ==
    IF ~IsOffset(h, ref) THEN h[ref].output_bone
    ELSE IF h[ref].mch_bones # <<>>
    THEN h[ref].mch_bones[Len(h[ref].mch_bones)]
    ELSE output_bone(h, h[ref].parent)

\* Faulty variant of OffsetBones: a bone is made even without contributions.
OffsetBones_always(o) ==
    << [maker |-> o.node, role |-> "poffset", rig |-> o.owner,
        orientation |-> <<>>] >>

\* The bones ControlBoneParentOffset.generate_bones makes for the object o:
\* one for each key of add_local, or one if there are only copy_local items
OffsetBones(o) ==
    IF o.copy_local = <<>> /\ o.add_local = <<>> THEN <<>>
    ELSE IF o.add_local # <<>>
    THEN [k \in 1 .. Len(o.add_local) |->
             [maker |-> o.node, role |-> "poffset", rig |-> o.owner,
              orientation |-> DictGet(o.add_orientations, o.add_local[k][1])]]
    ELSE << [maker |-> o.node, role |-> "poffset", rig |-> o.owner,
             orientation |-> <<>>] >>

RECURSIVE SetParents(_, _, _)
\* set_bone_parent(mch_bones[0], first) and parent_bone_chain(mch_bones)
SetParents(d, chain, first) ==
    IF chain = <<>> THEN d
    ELSE SetParents(DictSet(d, Head(chain), first), Tail(chain), Head(chain))

(* ---------------------------------------------------------------------- *)
(* The rigs of a chain extend the parent of one node                       *)
(* ---------------------------------------------------------------------- *)
\* Template.substitute(mapping) raises KeyError when a placeholder of the
\* expression has no value in the mapping (a dict kept as a sequence).
SubstituteRaises(expr, mapping) ==
    \E k \in 1 .. Len(expr) :
        expr[k][1] = "$" /\ ~DictHas(mapping, expr[k][2])

\* Template.substitute(mapping): every placeholder becomes the text of its
\* value
Substitute(expr, mapping) ==
    [k \in 1 .. Len(expr) |->
        IF expr[k][1] = "$" THEN Text(DictGet(mapping, expr[k][2]))
        ELSE expr[k]]

\* {k: '' for k in varset if k != name}
WithoutName(varset, name) ==
    SelectSeq(varset, LAMBDA item : item[1] # name)

\* Faulty variant of FindSlot: a descriptor is never found among the slots.
FindSlot_none(variables, desc) == 0

\* Lines 569-572: the linear search for a slot holding an equal descriptor,
\* 0 when the loop ends without a break
FindSlot(variables, desc) ==
    IF \E k \in 1 .. Len(variables) : variables[k][2] = desc
    THEN CHOOSE k \in 1 .. Len(variables) :
             /\ variables[k][2] = desc
             /\ \A j \in 1 .. (k - 1) : variables[j][2] # desc
    ELSE 0

\* Lines 574-579: the name itself if it is free, else the first
\* '%s_%d' % (name, i), i = 1, 2, ..., that is free
NewSlotName(variables, name) ==
    IF ~DictHas(variables, name) THEN name
    ELSE Append(name,
             CHOOSE i \in 1 .. (Len(variables) + 1) :
                 /\ ~DictHas(variables, Append(name, i))
                 /\ \A j \in 1 .. (i - 1) :
                        DictHas(variables, Append(name, j)))

RECURSIVE MergeVariables(_, _, _, _, _)
\* Lines 559-582: the loop over the items of varset, from item k on; the
\* result is <<variables, varmap>>
MergeVariables(expr, varset, k, variables, varmap) ==
    IF k > Len(varset) THEN <<variables, varmap>>
    ELSE IF ~SubstituteRaises(expr, WithoutName(varset, varset[k][1]))
    THEN MergeVariables(expr, varset, k + 1, variables, varmap)
    ELSE IF FindSlot(variables, varset[k][2]) # 0
    THEN MergeVariables(expr, varset, k + 1, variables,
             DictSet(varmap, varset[k][1],
                     variables[FindSlot(variables, varset[k][2])][1]))
    ELSE MergeVariables(expr, varset, k + 1,
             DictSet(variables, NewSlotName(variables, varset[k][1]),
                     varset[k][2]),
             DictSet(varmap, varset[k][1],
                     NewSlotName(variables, varset[k][1])))

RECURSIVE CompileTerms(_, _, _, _)
\* Lines 551-584: the loop over the terms, from term k on
CompileTerms(items, k, variables, expressions) ==
    IF k > Len(items)
    THEN [raised |-> FALSE, expressions |-> expressions,
          variables |-> variables]
    ELSE IF SubstituteRaises(items[k][1], items[k][2])
    THEN [raised |-> TRUE, expressions |-> <<items[k][1]>>,
          variables |-> variables]
    ELSE \* bind the result of the inner loop once
         CHOOSE res \in
             { CompileTerms(items, k + 1, m[1],
                   Append(expressions, Substitute(items[k][1], m[2])))
               : m \in {MergeVariables(items[k][1], items[k][2], 1,
                                        variables, <<>>)} } : TRUE

RECURSIVE JoinTerms(_)
\* '+'.join('(' + expr + ')' for expr in expressions)
JoinTerms(expressions) ==
    IF expressions = <<>> THEN <<>>
    ELSE (IF Len(expressions) > 1
          THEN JoinTerms(SubSeq(expressions, 1, Len(expressions) - 1))
                   \o <<Text(<<"+">>)>>
          ELSE <<>>)
         \o <<Text(<<"(">>)>> \o expressions[Len(expressions)]
         \o <<Text(<<")">>)>>

\* ControlBoneParentOffset.compile_driver on a non-empty list of
\* (expression, variables) terms: the final expression and the variable
\* map, or the error raised for an expression with an unknown placeholder
compile_driver(items) ==
    LET c == CHOOSE res \in {CompileTerms(items, 1, <<>>, <<>>)} : TRUE
    IN  IF c.raised
        THEN [raised |-> TRUE, final_expr |-> c.expressions[1],
              variables |-> <<>>]
        ELSE [raised |-> FALSE,
              final_expr |-> IF Len(c.expressions) > 1
                             THEN JoinTerms(c.expressions)
                             ELSE c.expressions[1],
              variables |-> c.variables]

RECURSIVE SumLazy(_)
\* sum(map(force_lazy, lazyinf))
SumLazy(lazyinf) ==
    IF lazyinf = <<>> THEN 0
    ELSE Head(lazyinf).value + SumLazy(Tail(lazyinf))

\* str(influence)
Str(influence) == <<Text(<<"num", influence>>)>>

\* Lines 594-606: the constraints rig_bones makes for copy_local, each with
\* the terms of its driver (none: no driver is made)
CopyLocalJobs(o) ==
    [k \in 1 .. Len(o.copy_local) |->
        LET v == o.copy_local[k][2]
            influence == v[1] + SumLazy(v[3])
        IN  [on |-> <<"COPY_LOCATION", o.copy_local[k][1]>>,
             prop |-> "influence", index |-> 0, influence |-> influence,
             items |-> IF v[2] = <<>> THEN <<>>
                       ELSE IF influence > 0
                       THEN Append(v[2], <<Str(influence), <<>>>>)
                       ELSE v[2]]]

RECURSIVE AddLocalJobs(_, _, _)
\* Lines 608-616: the location drivers of the bones, bone k and index from
\* the given ones on
AddLocalJobs(o, k, index) ==
    IF k > Len(o.add_local) \/ k > Len(o.mch_bones) THEN <<>>
    ELSE IF index > 2 THEN AddLocalJobs(o, k + 1, 0)
    ELSE (IF o.add_local[k][2][index + 1] # <<>>
          THEN << [on |-> o.mch_bones[k], prop |-> "location",
                   index |-> index, influence |-> 0,
                   items |-> o.add_local[k][2][index + 1]] >>
          ELSE <<>>)
         \o AddLocalJobs(o, k, index + 1)

RECURSIVE MakeDrivers(_, _, _)
\* The calls of compile_driver and make_driver for the jobs from job k on:
\* the drivers made, and the expression that raised the error, if one did
MakeDrivers(jobs, k, made) ==
    IF k > Len(jobs) THEN [raised |-> FALSE, expr |-> <<>>, drivers |-> made]
    ELSE IF jobs[k].items = <<>> THEN MakeDrivers(jobs, k + 1, made)
    ELSE CHOOSE res \in
             { IF c.raised
               THEN [raised |-> TRUE, expr |-> c.final_expr,
                     drivers |-> made]
               ELSE MakeDrivers(jobs, k + 1,
                        Append(made,
                            [on |-> jobs[k].on, prop |-> jobs[k].prop,
                             index |-> jobs[k].index,
                             items |-> jobs[k].items,
                             expression |-> c.final_expr,
                             variables |-> c.variables]))
               : c \in {compile_driver(jobs[k].items)} } : TRUE

\* ControlBoneParentOffset.rig_bones on the object o
rig_bones(o) ==
    MakeDrivers(CopyLocalJobs(o) \o AddLocalJobs(o, 1, 0), 1, <<>>)

\* The metarig bones a primary parent may wrap.
ParentBones == {<<"ORG", 5>>, <<"ORG", 6>>}

\* The bones a contribution may copy from: LazyRef(node, 'reparent_bone')
Targets == {<<1, "reparent_bone">>, <<2, "reparent_bone">>}

\* The arguments of add_copy_local_location: a constant influence, a
\* callable influence, or an expression (with the default influence 1).
CopyLocalArgs ==
    { [influence |-> [callable |-> FALSE, value |-> 1], influence_expr |-> <<>>],
      [influence |-> [callable |-> FALSE, value |-> 2], influence_expr |-> <<>>],
      [influence |-> [callable |-> TRUE, value |-> 1], influence_expr |-> <<>>],
      [influence |-> [callable |-> FALSE, value |-> 1],
       influence_expr |-> VarExpr] }

\* Orientations in units of 0.00001: the second rounds to the key of the
\* first, the third does not.
Orientations == {<<100000, 0>>, <<100000, 4>>, <<100000, 6>>}

OffsetStageOpen == \A k \in 1 .. Len(heap) : ~heap[k].generated

\* The rig of the node builds its primary parent
\* (build_control_node_parent).
NewParentOrg ==
    /\ heap = <<>>
    /\ \E org \in ParentBones :
          heap' = Append(heap, ControlBoneParentOrg(org))
    /\ op' = "ControlBoneParentOrg"
    /\ UNCHANGED <<nodes, frozen, runs, final_nodes, groups, pc, err,
                   err_args, init_cur, bone_parent, previous>>
    /\ UNCHANGED <<initVars, buildVars, genVars>>

\* A rig wraps the parent it was given, the result of the rigs before it
\* (extend_control_node_parent).
Wrap ==
    /\ OffsetStageOpen
    /\ heap # <<>>
    /\ Len(heap) < MaxObjects
    /\ \E owner \in {1, 3} :
          heap' = wrap(heap, owner, Len(heap), 1).heap
    /\ op' = "wrap"
    /\ UNCHANGED <<nodes, frozen, runs, final_nodes, groups, pc, err,
                   err_args, init_cur, bone_parent, previous>>
    /\ UNCHANGED <<initVars, buildVars, genVars>>

\* A rig adds a weighted contribution to the generator it got from wrap.
AddCopyLocalLocation ==
    /\ OffsetStageOpen
    /\ \E ref \in {Len(heap)}, target \in Targets, a \in CopyLocalArgs :
          /\ ref > 0
          /\ IsOffset(heap, ref)
          /\ Len(heap[ref].log) < MaxCalls
          /\ heap' = [heap EXCEPT ![ref] =
                 [add_copy_local_location(@, target, a.influence,
                                          a.influence_expr, <<>>)
                  EXCEPT !.log = Append(@,
                      [call |-> "add_copy_local_location", target |-> target,
                       influence |-> a.influence,
                       influence_expr |-> a.influence_expr,
                       orientation |-> <<>>, index |-> 0])]]
    /\ op' = "add_copy_local_location"
    /\ UNCHANGED <<nodes, frozen, runs, final_nodes, groups, pc, err,
                   err_args, init_cur, bone_parent, previous>>
    /\ UNCHANGED <<initVars, buildVars, genVars>>

\* A rig adds a location driver to the generator it got from wrap.
AddLocationDriver ==
    /\ OffsetStageOpen
    /\ \E ref \in {Len(heap)}, orientation \in Orientations,
          index \in {0, 2} :
          /\ ref > 0
          /\ IsOffset(heap, ref)
          /\ Len(heap[ref].log) < MaxCalls
          /\ heap' = [heap EXCEPT ![ref] =
                 [add_location_driver(@, orientation, index, VarExpr, <<>>)
                  EXCEPT !.log = Append(@,
                      [call |-> "add_location_driver", target |-> <<0, "">>,
                       influence |-> [callable |-> FALSE, value |-> 0],
                       influence_expr |-> VarExpr,
                       orientation |-> orientation, index |-> index])]]
    /\ op' = "add_location_driver"
    /\ UNCHANGED <<nodes, frozen, runs, final_nodes, groups, pc, err,
                   err_args, init_cur, bone_parent, previous>>
    /\ UNCHANGED <<initVars, buildVars, genVars>>

\* ControlBoneParentOffset.generate_bones, invoked on the generators in the
\* generate_bones stage.
OffsetGenerateBones ==
    /\ \E ref \in 1 .. Len(heap) :
          /\ IsOffset(heap, ref)
          /\ ~heap[ref].generated
          /\ \A k \in 1 .. (ref - 1) : IsOffset(heap, k) => heap[k].generated
          /\ LET made == OffsetBones(heap[ref])
             IN  /\ bones' = bones \o made
                 /\ heap' = [heap EXCEPT
                        ![ref].generated = TRUE,
                        ![ref].mch_bones =
                            [k \in 1 .. Len(made) |-> MadeBone(Len(bones) + k)]]
    /\ op' = "generate_bones"
    /\ UNCHANGED <<nodes, frozen, runs, final_nodes, groups, pc, err,
                   err_args, init_cur, bone_parent, gen_cur,
                   previous>>
    /\ UNCHANGED <<initVars, buildVars>>

\* ControlBoneParentOffset.parent_bones, invoked on the generators in the
\* parent_bones stage, after the generate_bones stage.
OffsetParentBones ==
    /\ \A k \in 1 .. Len(heap) : IsOffset(heap, k) => heap[k].generated
    /\ \E ref \in 1 .. Len(heap) :
          /\ IsOffset(heap, ref)
          /\ ~heap[ref].parented
          /\ \A k \in 1 .. (ref - 1) : IsOffset(heap, k) => heap[k].parented
          /\ heap' = [heap EXCEPT ![ref].parented = TRUE]
          /\ bone_parent' =
                 SetParents(bone_parent, heap[ref].mch_bones,
                            output_bone(heap, heap[ref].parent))
    /\ op' = "parent_bones"
    /\ UNCHANGED <<nodes, frozen, runs, final_nodes, groups, pc, err,
                   err_args, init_cur, previous>>
    /\ UNCHANGED <<initVars, buildVars, genVars>>

NextOffset ==
    \/ NewParentOrg
    \/ Wrap
    \/ AddCopyLocalLocation
    \/ AddLocationDriver
    \/ OffsetGenerateBones
    \/ OffsetParentBones

SpecOffset == Init /\ [][NextOffset]_vars

(* ---------------------------------------------------------------------- *)
(* Generators whose drivers are compiled                                    *)
(* ---------------------------------------------------------------------- *)
\* The variable names "x", "y" and "x_1"
NameX == <<"x">>

NameY == <<"y">>

NameX1 == <<"x", 1>>

\* The (expression, variables) terms the rigs supply; a descriptor is one of
\* 1, 2, 3.  The terms reuse a name for another descriptor, give one
\* descriptor two names, leave a variable unused, take the name a renamed
\* slot would get, and use a placeholder without a variable.
DriverTerms ==
    { << <<Placeholder(NameX)>>, << <<NameX, 1>> >> >>,
      << <<Placeholder(NameX)>>, << <<NameX, 2>> >> >>,
      << <<Placeholder(NameX), Text(<<"*">>), Placeholder(NameY)>>,
         << <<NameX, 2>>, <<NameY, 2>> >> >>,
      << <<Placeholder(NameX), Text(<<"*">>), Placeholder(NameY)>>,
         << <<NameX, 1>>, <<NameY, 2>> >> >>,
      << <<Placeholder(NameX)>>, << <<NameX, 1>>, <<NameY, 3>> >> >>,
      << <<Placeholder(NameX1)>>, << <<NameX1, 3>> >> >>,
      << <<Text(<<"num", 2>>)>>, <<>> >>,
      << <<Placeholder(NameY)>>, << <<NameX, 1>> >> >> }

\* The terms given with add_copy_local_location
CopyLocalTerms ==
    { t \in DriverTerms : Len(t[1]) = 1 /\ Len(t[2]) = 1 /\ t[2][1][1] = NameX }

RECURSIVE CallsMade(_)
\* The number of contributions asked of the generators of the heap
CallsMade(h) ==
    IF h = <<>> THEN 0 ELSE Len(Head(h).log) + CallsMade(Tail(h))

\* A rig adds a location driver term to the generator it got from wrap.
AddDriverTerm ==
    /\ OffsetStageOpen
    /\ \E ref \in {Len(heap)}, index \in {0, 2}, t \in DriverTerms :
          /\ ref > 0
          /\ IsOffset(heap, ref)
          /\ CallsMade(heap) < MaxCalls
          /\ heap' = [heap EXCEPT ![ref] =
                 [add_location_driver(@, <<100000, 0>>, index, t[1], t[2])
                  EXCEPT !.log = Append(@,
                      [call |-> "add_location_driver", target |-> <<0, "">>,
                       influence |-> [callable |-> FALSE, value |-> 0],
                       influence_expr |-> t[1],
                       orientation |-> <<100000, 0>>, index |-> index])]]
    /\ op' = "add_location_driver"
    /\ UNCHANGED <<nodes, frozen, runs, final_nodes, groups, pc, err,
                   err_args, init_cur, bone_parent, previous>>
    /\ UNCHANGED <<initVars, buildVars, genVars>>

\* A rig adds a contribution to the generator it got from wrap: a constant
\* influence, or an expression with its variables.
AddCopyLocalTerm ==
    /\ OffsetStageOpen
    /\ \E ref \in {Len(heap)}, target \in Targets,
          t \in CopyLocalTerms \cup {<< <<>>, <<>> >>} :
          /\ ref > 0
          /\ IsOffset(heap, ref)
          /\ CallsMade(heap) < MaxCalls
          /\ heap' = [heap EXCEPT ![ref] =
                 [add_copy_local_location(@, target,
                      [callable |-> FALSE, value |-> 1], t[1], t[2])
                  EXCEPT !.log = Append(@,
                      [call |-> "add_copy_local_location", target |-> target,
                       influence |-> [callable |-> FALSE, value |-> 1],
                       influence_expr |-> t[1],
                       orientation |-> <<>>, index |-> 0])]]
    /\ op' = "add_copy_local_location"
    /\ UNCHANGED <<nodes, frozen, runs, final_nodes, groups, pc, err,
                   err_args, init_cur, bone_parent, previous>>
    /\ UNCHANGED <<initVars, buildVars, genVars>>

\* ControlBoneParentOffset.rig_bones, invoked on the generators in the
\* rig_bones stage, after the parent_bones stage.  An invalid expression
\* ends the generation with the drivers made so far.
OffsetRigBones ==
    /\ err = ""
    /\ \A k \in 1 .. Len(heap) : IsOffset(heap, k) => heap[k].parented
    /\ \E ref \in 1 .. Len(heap) :
          /\ IsOffset(heap, ref)
          /\ ~heap[ref].rigged
          /\ \A k \in 1 .. (ref - 1) : IsOffset(heap, k) => heap[k].rigged
          /\ \E r \in {rig_bones(heap[ref])} :
                /\ heap' = [heap EXCEPT ![ref].rigged = TRUE,
                                        ![ref].drivers = r.drivers]
                /\ IF r.raised
                   THEN RaiseWith("Invalid driver expression", <<r.expr>>)
                   ELSE UNCHANGED <<pc, err, err_args, tree, processed,
                                    l_final, cur, pending, merge_set,
                                    merge_table, bpending>>
    /\ op' = "rig_bones"
    /\ UNCHANGED <<nodes, frozen, runs, final_nodes, groups, init_cur,
                   bone_parent, previous, l_groups, grp>>
    /\ UNCHANGED genVars

NextDriver ==
    \/ NewParentOrg
    \/ Wrap
    \/ AddDriverTerm
    \/ AddCopyLocalTerm
    \/ OffsetGenerateBones
    \/ OffsetParentBones
    \/ OffsetRigBones

SpecDriver == Init /\ [][NextDriver]_vars

(* ---------------------------------------------------------------------- *)
(* The initialize stage of the nodes                                       *)
(* ---------------------------------------------------------------------- *)
\* BaseSkinRig.rig_parent_bone of each rig: the parent of its base bone
rig_parent_bone(rig) == <<"ORG", <<5, 5, 5, 6>>[rig]>>

\* BaseRig.rigify_parent of each rig, None for a rig at the top.  The chain
\* rigs 1, 2 and 3 are children of rig 5 and the chain rig 4 of rig 6, the
\* rigs of the bones their base bones are parented to.
rigify_parent == <<5, 5, 5, 6, 6, 7, 8, None>>

\* The rigs that are instances of BaseSkinRig: the chain rigs and the rigs 5
\* and 7, which keep the hooks of BaseSkinRig.  The rigs 6 and 8 are rigs of
\* other kinds.
BaseSkinRigs == {1, 2, 3, 4, 5, 7}

\* Faulty variant of get_parent_skin_rig: the parent rig, whatever its kind.
get_parent_skin_rig_any(rig) == rigify_parent[rig]

RECURSIVE SkinRigFrom(_)
\* Lines 627-632: the loop of get_parent_skin_rig
SkinRigFrom(parent) ==
    IF parent = None THEN None
    ELSE IF parent \in BaseSkinRigs THEN parent
    ELSE SkinRigFrom(rigify_parent[parent])

\* BaseSkinRig.get_parent_skin_rig
get_parent_skin_rig(rig) == SkinRigFrom(rigify_parent[rig])

RECURSIVE get_all_parent_skin_rigs(_)
\* BaseSkinRig.get_all_parent_skin_rigs: the rig, then its skin ancestors
get_all_parent_skin_rigs(current) ==
    IF current = None THEN <<>>
    ELSE <<current>> \o get_all_parent_skin_rigs(get_parent_skin_rig(current))

\* reversed(s)
Reversed(s) == [k \in 1 .. Len(s) |-> s[Len(s) + 1 - k]]

\* BaseSkinRig.build_control_node_parent
build_control_node_parent(rig, node, parent_bone) ==
    ControlBoneParentOrg(parent_bone)

\* BaseSkinRig.build_control_node_parent_next
build_control_node_parent_next(rig, node) ==
    IF rigify_parent[rig] \in BaseSkinRigs
    THEN build_control_node_parent(rigify_parent[rig], node,
                                   rig_parent_bone(rig))
    ELSE ControlBoneParentOrg(rig_parent_bone(rig))

\* BaseSkinChainRig.build_own_control_node_parent: the new object is put on
\* the heap
build_own_control_node_parent(h, ns, node) ==
    [ heap |-> Append(h, build_control_node_parent_next(ns[node].rig, node)),
      ref |-> Len(h) + 1 ]

RECURSIVE AddFalloff(_, _)
\* stretchy_chain lines 151-172: the contributions with a non-zero falloff
AddFalloff(o, items) ==
    IF items = <<>> THEN o
    ELSE AddFalloff(add_copy_local_location(o, Head(items)[1],
                        [callable |-> FALSE, value |-> Head(items)[2]],
                        <<>>, <<>>),
                    Tail(items))

\* rig.extend_control_node_parent(parent, node): BaseSkinRig returns the
\* parent, and so does the stretchy chain for a node of another rig or a
\* node at an end of the chain; it wraps the parent of its other nodes
extend_control_node_parent(h, ns, rig, parent, node) ==
    IF rig # ns[node].rig \/ ~ns[node].falloff.wrapped
    THEN [ heap |-> h, ref |-> parent ]
    ELSE LET w == wrap(h, ns[node].rig, parent, node)
         IN  [ heap |-> [w.heap EXCEPT ![w.ref] =
                            AddFalloff(@, ns[node].falloff.items)],
               ref |-> w.ref ]

\* Lines 196-199: the index in the cache of the first entry equal to the
\* result, or 0
CacheFind_never(h, cache, result) == 0

CacheFind(h, cache, result) ==
    IF \E k \in 1 .. Len(cache) : ParentEq(h, cache[k], result)
    THEN CHOOSE k \in 1 .. Len(cache) :
             /\ ParentEq(h, cache[k], result)
             /\ \A j \in 1 .. (k - 1) : ~ParentEq(h, cache[j], result)
    ELSE 0

RECURSIVE ExtendAll(_, _, _, _, _)
\* Lines 189-190: the loop over the rigs; every call is recorded on the node
\* with the rig, the parent passed and the parent returned
ExtendAll(h, ns, rigs, parent, node) ==
    IF rigs = <<>> THEN [ heap |-> h, nodes |-> ns, ref |-> parent ]
    ELSE CHOOSE res \in
             { ExtendAll(r.heap,
                         [ns EXCEPT ![node].parent_calls =
                             Append(@, <<Head(rigs), parent, r.ref>>)],
                         Tail(rigs), r.ref, node) :
               r \in {extend_control_node_parent(h, ns, Head(rigs), parent,
                                                 node)} } :
             TRUE

\* ControlBoneNode.build_parent_for_node on the master m for the node: the
\* heap and the nodes after the call, and the reference returned.  The
\* objects of a result dropped for a cached one are no longer referenced.
\* (A value is bound once by drawing it from a singleton set.)
build_parent_for_node(h, ns, m, node) ==
    LET cache == ns[m].parent_subrig_cache
        own == build_own_control_node_parent(h, ns, node)
        rigs == Reversed(get_all_parent_skin_rigs(ns[node].rig))
    IN  CHOOSE res \in
            { IF found[1] # 0
              THEN [ heap |-> h, nodes |-> found[2].nodes,
                     ref |-> cache[found[1]] ]
              ELSE [ heap |-> [found[2].heap EXCEPT
                                  ![found[2].ref].enabled = @ + 1],
                     nodes |-> [found[2].nodes EXCEPT
                         ![m].parent_subrig_cache = Append(@, found[2].ref),
                         ![m].parent_subrig_names =
                             DictSet(@, found[2].ref, ns[node].name)],
                     ref |-> found[2].ref ] :
              found \in { <<CacheFind(ext.heap, cache, ext.ref), ext>> :
                  ext \in {ExtendAll(own.heap,
                                     [ns EXCEPT ![node].parent_calls =
                                         Append(@, <<None, None, own.ref>>)],
                                     rigs, own.ref, node)} } } :
            TRUE

\* ControlBoneNode.build_parent
build_parent(h, ns, n) ==
    IF ns[n].node_parent # None
    THEN [ heap |-> h, nodes |-> ns, ref |-> ns[n].node_parent ]
    ELSE CHOOSE res \in
             { [ heap |-> r.heap,
                 nodes |-> [r.nodes EXCEPT ![n].node_parent = r.ref],
                 ref |-> r.ref ] :
               r \in {build_parent_for_node(h, ns, ns[n].merged_master, n)} } :
             TRUE

RECURSIVE BuildParents(_, _, _, _)
\* Line 246: [ node.build_parent() for node in mirror_sibling_list ]
BuildParents(h, ns, list, acc) ==
    IF list = <<>> THEN [ heap |-> h, nodes |-> ns, refs |-> acc ]
    ELSE CHOOSE res \in
             { BuildParents(r.heap, r.nodes, Tail(list), Append(acc, r.ref)) :
               r \in {build_parent(h, ns, Head(list))} } :
             TRUE

\* ControlBoneNode.request_reparent
request_reparent(h, ns, n, parent) ==
    LET m == ns[n].merged_master
    IN  IF \E k \in 1 .. Len(ns[m].reparent_requests) :
               ParentEq(h, ns[m].reparent_requests[k], parent)
        THEN [ns EXCEPT ![m].requested = Append(@, parent)]
        ELSE [ns EXCEPT ![m].reparent_requests = Append(@, parent),
                        ![m].requested = Append(@, parent)]

\* ControlBoneNode.get_rotation: the rotation of a node is kept as the list
\* of the rigs whose rotations were summed into it
get_rotation(ns, n) ==
    IF ns[n].rotation = <<>> THEN [ns EXCEPT ![n].rotation = <<ns[n].rig>>]
    ELSE ns

RECURSIVE GetRotations(_, _)
GetRotations(ns, list) ==
    IF list = <<>> THEN ns
    ELSE CHOOSE res \in
             { GetRotations(s1, Tail(list)) :
               s1 \in {get_rotation(ns, Head(list))} } :
             TRUE

RECURSIVE Flatten(_)
Flatten(ss) == IF ss = <<>> THEN <<>> ELSE Head(ss) \o Flatten(Tail(ss))

\* Faulty variant of BestMirror: the sizes of all merged siblings are used.
BestMirror_all_siblings(ns, sibling_list) == sibling_list

\* Lines 229-230: the mirror siblings of the first sibling with the highest
\* icon
BestMirror(ns, sibling_list) ==
    LET best == sibling_list[MaxFirst([k \in 1 .. Len(sibling_list) |->
                                          ns[sibling_list[k]].icon])]
    IN  DictValues(ns[best].mirror_siblings)

\* Lines 229-243: the size, the rotation and the matrix of the master n
SizeAndRotation(ns, n) ==
    LET mirror_sibling_list == DictValues(ns[n].mirror_siblings)
        best_mirror == BestMirror(ns, get_merged_siblings(ns, n))
        size == RatDivInt(RatSum([k \in 1 .. Len(best_mirror) |->
                                     ns[best_mirror[k]].size], <<0, 1>>),
                          Len(best_mirror))
    IN  CHOOSE res \in
            { [sr[1] EXCEPT ![n].size = size,
                            ![n].rotation = sr[2],
                            ![n].matrix = <<sr[2], sr[1][n].point>>] :
              sr \in { <<s1, Flatten([k \in 1 .. Len(mirror_sibling_list) |->
                                        s1[mirror_sibling_list[k]].rotation])>> :
                       s1 \in {GetRotations(ns, mirror_sibling_list)} } } :
            TRUE

\* Lines 248-252: the parents of the mirror siblings are all equal to the
\* parent of the master n, or they are mixed
MixParents(built, n) ==
    LET own == built.nodes[n].node_parent
        same == \A k \in 1 .. Len(built.refs) :
                    own # None /\ ParentEq(built.heap, built.refs[k], own)
    IN  [ heap |-> built.heap,
          nodes |-> [built.nodes EXCEPT
              ![n].use_mix_parent = ~same,
              ![n].node_parent_list = IF same THEN <<own>> ELSE built.refs] ]

\* ControlBoneNode.initialize, lines 224-252, on the master n
initialize_master(h, ns, n) ==
    CHOOSE res \in
        { MixParents(built, n) :
          built \in { BuildParents(h, s2,
                                   DictValues(ns[n].mirror_siblings), <<>>) :
                      s2 \in {SizeAndRotation(ns, n)} } } :
        TRUE

\* Lines 255-258, on any node n
initialize_parent(r1, n) ==
    IF r1.nodes[n].node_needs_parent \/ r1.nodes[n].node_needs_reparent
    THEN CHOOSE res \in
             { [ heap |-> r2.heap,
                 nodes |-> IF r2.nodes[n].node_needs_reparent
                           THEN request_reparent(r2.heap, r2.nodes, n, r2.ref)
                           ELSE r2.nodes ] :
               r2 \in {build_parent(r1.heap, r1.nodes, n)} } :
             TRUE
    ELSE r1

\* ControlBoneNode.initialize on the node n
initialize(h, ns, n) ==
    CHOOSE res \in
        { initialize_parent(r1, n) :
          r1 \in { IF is_master_node(ns, n) THEN initialize_master(h, ns, n)
                   ELSE [ heap |-> h, nodes |-> ns ] } } :
        TRUE

\* The initialize stage invokes the nodes of final_nodes (the sub-objects
\* of the merger) one after the other.
NodeInitialize ==
    /\ pc = "done"
    /\ err = ""
    /\ init_cur < Len(final_nodes)
    /\ is_main(final_nodes[init_cur + 1])
    /\ op' = "node.initialize"
    /\ \E r \in {initialize(heap, nodes, final_nodes[init_cur + 1])} :
          /\ heap' = r.heap
          /\ nodes' = r.nodes
    /\ init_cur' = init_cur + 1
    /\ UNCHANGED <<frozen, runs, final_nodes, groups, pc, err, err_args>>
    /\ UNCHANGED <<initVars, buildVars, gen_cur, bones, bone_parent, previous>>

RECURSIVE SortReverse(_, _)
\* list.sort(key=..., reverse=True) on the list s, keys[i] being the key of
\* s[i]: the sort is stable, items of equal keys keep their order
SortReverse(s, keys) ==
    IF s = <<>> THEN <<>>
    ELSE LET i == MaxFirst(keys)
             rest == [k \in 1 .. (Len(s) - 1) |-> IF k < i THEN k ELSE k + 1]
         IN  <<s[i]>> \o SortReverse([k \in 1 .. Len(rest) |-> s[rest[k]]],
                                     [k \in 1 .. Len(rest) |-> keys[rest[k]]])

\* Faulty variant of query_merge_priority: the priority of
\* BaseControlQueryNode is not overridden by ControlQueryNode.
query_merge_priority_base(ns, n, other) == ns[other].layer

\* BaseControlQueryNode.get_merge_priority (inherited by PositionQueryNode)
\* and ControlQueryNode.get_merge_priority
query_merge_priority(ns, n, other) ==
    IF ns[n].kind = "cquery" THEN -ns[other].layer ELSE ns[other].layer

\* QueryMergeNode.initialize: BaseControlQueryNode.can_merge_into is True
\* for every node
QueryMergeNode_initialize(ns, n) ==
    LET matched == groups[ns[n].group].final_nodes
    IN  [ns EXCEPT ![n].matched_nodes =
            [assigned |-> TRUE,
             items |-> SortReverse(matched,
                          [k \in 1 .. Len(matched) |->
                              query_merge_priority(ns, n, matched[k])])]]

\* BaseControlQueryNode.merged_master: matched_nodes[0].  The attribute
\* matched_nodes exists once QueryMergeNode.initialize has assigned it.
query_merged_master(ns, n) ==
    IF ~ns[n].matched_nodes.assigned
    THEN [raised |-> "AttributeError: matched_nodes", value |-> None]
    ELSE IF ns[n].matched_nodes.items = <<>>
    THEN [raised |-> "IndexError: list index out of range", value |-> None]
    ELSE [raised |-> "", value |-> ns[n].matched_nodes.items[1]]

\* The initialize stage on a query node.  ControlQueryNode inherits
\* QueryMergeNode.initialize.  PositionQueryNode.initialize (lines 399-404)
\* replaces it without calling it: it reads merged_master when
\* needs_reparent is set, and does nothing otherwise.
QueryInitialize ==
    /\ pc = "done"
    /\ err = ""
    /\ init_cur < Len(final_nodes)
    /\ ~is_main(final_nodes[init_cur + 1])
    /\ op' = "node.initialize"
    /\ \E n \in {final_nodes[init_cur + 1]} :
          IF nodes[n].kind = "cquery"
          THEN /\ nodes' = QueryMergeNode_initialize(nodes, n)
               /\ init_cur' = init_cur + 1
               /\ UNCHANGED <<pc, err, err_args, initVars, buildVars>>
          ELSE IF nodes[n].needs_reparent
                  /\ query_merged_master(nodes, n).raised # ""
          THEN /\ Raise(query_merged_master(nodes, n).raised)
               /\ UNCHANGED <<nodes, init_cur, grp>>
          ELSE /\ init_cur' = init_cur + 1
               /\ UNCHANGED <<nodes, pc, err, err_args, initVars, buildVars>>
    /\ UNCHANGED <<frozen, runs, final_nodes, groups, l_groups>>
    /\ UNCHANGED <<gen_cur, bones, heap, bone_parent, previous>>

\* The names "a", "a.L", "a.R", "b.L" and "b.R" of control nodes
MirrorNames ==
    { <<1, 0, SIDE_MIDDLE, SIDE_MIDDLE>>, <<1, 0, SIDE_LEFT, SIDE_MIDDLE>>,
      <<1, 0, SIDE_RIGHT, SIDE_MIDDLE>>, <<2, 0, SIDE_LEFT, SIDE_MIDDLE>>,
      <<2, 0, SIDE_RIGHT, SIDE_MIDDLE>> }

(* ---------------------------------------------------------------------- *)
(* Clusters of nodes with sizes and icons                                  *)
(* ---------------------------------------------------------------------- *)
\* Two chains of equal priority, rig 1 on the left side and rig 4 on the
\* right side, make FREE control nodes at one position, with the icon TWEAK
\* or FREE and the size 1 or 2.
SizeInputs ==
    IF frozen \/ Len(nodes) >= MaxNodes THEN {}
    ELSE {[NewNode(rig, name, 0, [kind |-> "control", layer |-> FREE])
               EXCEPT !.icon = icon, !.size = <<size, 1>>] :
              rig \in {1, 4},
              name \in {nm \in MirrorNames : nm[3] # SIDE_MIDDLE},
              icon \in {ICON_TWEAK, ICON_FREE}, size \in {1, 2}}

RegisterSizeNode ==
    /\ err = ""
    /\ \E node \in SizeInputs :
          /\ node.name[3] = (IF node.rig = 1 THEN SIDE_LEFT ELSE SIDE_RIGHT)
          /\ register_node(node)

NextSize ==
    \/ RegisterSizeNode
    \/ InitializeBegin
    \/ InitializeSkip
    \/ ClusterBegin
    \/ ClosureStep
    \/ ClusterDone
    \/ BuildMergeTable
    \/ ElectStep
    \/ BuildEnd
    \/ InitializeEnd
    \/ NodeInitialize

SpecSize == Init /\ [][NextSize]_vars

(* ---------------------------------------------------------------------- *)
(* Clusters of nodes whose rigs extend the parents                         *)
(* ---------------------------------------------------------------------- *)
\* What the rig of a node does to the parent: rig 1 is a basic chain and
\* returns it, rig 3 is a stretchy chain.
Falloffs(rig) ==
    IF rig # 3 THEN {[wrapped |-> FALSE, items |-> <<>>]}
    ELSE { [wrapped |-> FALSE, items |-> <<>>],
           [wrapped |-> TRUE, items |-> <<>>],
           [wrapped |-> TRUE, items |-> <<<<<<1, "reparent_bone">>, 1>>>>],
           [wrapped |-> TRUE, items |-> <<<<<<1, "reparent_bone">>, 2>>>>] }

\* Two chains of equal priority make FREE control nodes at one position,
\* named "a", "a.L" or "a.R"; a node of the basic chain may need a reparent
\* bone.
ParentInputs ==
    IF frozen \/ Len(nodes) >= MaxNodes THEN {}
    ELSE {[NewNode(rig, name, 0, [kind |-> "control", layer |-> FREE])
               EXCEPT !.falloff = falloff, !.node_needs_reparent = reparent] :
              rig \in {1, 3},
              name \in {nm \in MirrorNames : nm[1] = 1},
              falloff \in Falloffs(3), reparent \in BOOLEAN}

RegisterParentNode ==
    /\ err = ""
    /\ \E node \in ParentInputs :
          /\ node.falloff \in Falloffs(node.rig)
          /\ node.node_needs_reparent => node.rig = 1
          /\ register_node(node)

NextParent ==
    \/ RegisterParentNode
    \/ InitializeBegin
    \/ InitializeSkip
    \/ ClusterBegin
    \/ ClosureStep
    \/ ClusterDone
    \/ BuildMergeTable
    \/ ElectStep
    \/ BuildEnd
    \/ InitializeEnd
    \/ NodeInitialize

SpecParent == Init /\ [][NextParent]_vars

(* ---------------------------------------------------------------------- *)
(* Clusters whose masters make reparent bones                              *)
(* ---------------------------------------------------------------------- *)
\* The generate_bones stage follows the initialize stage.
NodeGenerateBones ==
    /\ init_cur = Len(final_nodes)
    /\ GenerateBones

NextReparent ==
    \/ RegisterParentNode
    \/ InitializeBegin
    \/ InitializeSkip
    \/ ClusterBegin
    \/ ClosureStep
    \/ ClusterDone
    \/ BuildMergeTable
    \/ ElectStep
    \/ BuildEnd
    \/ InitializeEnd
    \/ NodeInitialize
    \/ NodeGenerateBones

SpecReparent == Init /\ [][NextReparent]_vars

(* ---------------------------------------------------------------------- *)
(* Clusters with query nodes                                               *)
(* ---------------------------------------------------------------------- *)
\* Two chains of equal priority make FREE and TWEAK control nodes at one
\* position; a third rig makes a ControlQueryNode or a PositionQueryNode
\* there.
QueryInputs ==
    IF frozen \/ Len(nodes) >= MaxNodes THEN {}
    ELSE {NewNode(rig, NewName(rig), 0, [kind |-> "control", layer |-> layer]) :
              rig \in {1, 3}, layer \in {FREE, TWEAK}}
         \cup {NewNode(4, NewName(4), 0, [kind |-> "cquery", layer |-> FREE])}
         \cup {[NewNode(4, NewName(4), 0, [kind |-> "pquery", layer |-> FREE])
                   EXCEPT !.needs_reparent = reparent] :
                   reparent \in BOOLEAN}

RegisterQueryNode ==
    /\ err = ""
    /\ \E node \in QueryInputs : register_node(node)

NextQuery ==
    \/ RegisterQueryNode
    \/ InitializeBegin
    \/ InitializeSkip
    \/ ClusterBegin
    \/ ClosureStep
    \/ ClusterDone
    \/ BuildMergeTable
    \/ ElectStep
    \/ BuildEnd
    \/ InitializeEnd
    \/ NodeInitialize
    \/ QueryInitialize

SpecQuery == Init /\ [][NextQuery]_vars

(* ---------------------------------------------------------------------- *)
(* Two generations of one metarig                                          *)
(* ---------------------------------------------------------------------- *)
\* The names "a", "a.001" and "a.002"
OrderNames ==
    { <<1, 0, SIDE_MIDDLE, SIDE_MIDDLE>>, <<1, 1, SIDE_MIDDLE, SIDE_MIDDLE>>,
      <<1, 2, SIDE_MIDDLE, SIDE_MIDDLE>> }

\* Two chains of equal priority make FREE control nodes at one position,
\* under names that may coincide.
OrderInputs ==
    IF frozen \/ previous.recorded \/ Len(nodes) >= MaxNodes THEN {}
    ELSE {NewNode(rig, name, 0, [kind |-> "control", layer |-> FREE]) :
              rig \in {1, 3}, name \in OrderNames}

RegisterOrderNode ==
    /\ err = ""
    /\ \E node \in OrderInputs : register_node(node)

\* The bijections of 1 .. n
Orders(n) ==
    {p \in [1 .. n -> 1 .. n] : \A i, j \in 1 .. n : p[i] = p[j] => i = j}

\* What build has made of the groups, told by the names of the nodes: the
\* members, the masters in the order of their election and the master of
\* every follower.
MergeResult ==
    {[members |-> {nodes[n].name : n \in SeqSet(groups[k].nodes)},
      masters |-> [i \in 1 .. Len(groups[k].final_nodes) |->
                      nodes[groups[k].final_nodes[i]].name],
      into |-> {<<nodes[n].name, nodes[nodes[n].merged_into].name>> :
                   n \in {f \in SeqSet(groups[k].main_nodes) :
                             nodes[f].merged_into # None}}] :
        k \in 1 .. Len(groups)}

\* The metarig is generated again: the rigs construct the same nodes, which
\* register with a new NodeMerger (lines 39-47) in another order.  The
\* result of the generation that has ended is kept for comparison.
GenerateAgain ==
    /\ pc = "done"
    /\ err = ""
    /\ ~previous.recorded
    /\ previous' = [recorded |-> TRUE,
                    order |-> [i \in 1 .. Len(nodes) |->
                                  <<nodes[i].rig, nodes[i].name>>],
                    result |-> MergeResult]
    /\ \E p \in Orders(Len(nodes)) :
          nodes' = [i \in 1 .. Len(nodes) |->
                       NewNode(nodes[p[i]].rig, nodes[p[i]].name, 0,
                               [kind |-> nodes[p[i]].kind,
                                layer |-> nodes[p[i]].layer])]
    /\ final_nodes' = <<>>
    /\ groups' = <<>>
    /\ frozen' = FALSE
    /\ pc' = "register"
    /\ runs' = 0
    /\ op' = "__init__"
    /\ l_groups' = <<>>
    /\ grp' = NoGroup
    /\ UNCHANGED <<err, err_args, tree, processed, l_final, cur, pending,
                   merge_set, merge_table, bpending>>
    /\ UNCHANGED <<genVars, heap, init_cur, bone_parent>>

NextOrder ==
    \/ RegisterOrderNode
    \/ InitializeBegin
    \/ InitializeSkip
    \/ ClusterBegin
    \/ ClosureStep
    \/ ClusterDone
    \/ BuildMergeTable
    \/ ElectStep
    \/ BuildEnd
    \/ InitializeEnd
    \/ GenerateAgain

SpecOrder == Init /\ [][NextOrder]_vars

(* ---------------------------------------------------------------------- *)
(* Clusters of nodes of two layers                                         *)
(* ---------------------------------------------------------------------- *)
\* Three chains of equal priority make FREE and TWEAK control nodes at one
\* position.
LayeredInputs ==
    IF frozen \/ Len(nodes) >= MaxLayered THEN {}
    ELSE {NewNode(rig, NewName(rig), 0, [kind |-> "control", layer |-> layer]) :
              rig \in {1, 3, 4}, layer \in {FREE, TWEAK}}

RegisterLayeredNode ==
    /\ err = ""
    /\ \E node \in LayeredInputs : register_node(node)

NextLayered ==
    \/ RegisterLayeredNode
    \/ InitializeBegin
    \/ InitializeSkip
    \/ ClusterBegin
    \/ ClosureStep
    \/ ClusterDone
    \/ BuildMergeTable
    \/ ElectStep
    \/ BuildEnd
    \/ InitializeEnd

SpecLayered == Init /\ [][NextLayered]_vars

(* ---------------------------------------------------------------------- *)
(* Clusters of nodes with their own group classes                          *)
(* ---------------------------------------------------------------------- *)
\* Two chains of equal priority make FREE control nodes at the two ends of
\* the range of positions; the node classes have any of the group classes.
GroupClassInputs ==
    IF frozen \/ Len(nodes) >= MaxNodes THEN {}
    ELSE {[NewNode(rig, NewName(rig), point,
                   [kind |-> "control", layer |-> FREE])
               EXCEPT !.group_class = cls] :
              rig \in {1, 3}, point \in {0, MaxPoint}, cls \in GroupClasses}

RegisterGroupClassNode ==
    /\ err = ""
    /\ \E node \in GroupClassInputs : register_node(node)

NextGroupClass ==
    \/ RegisterGroupClassNode
    \/ InitializeBegin
    \/ InitializeSkip
    \/ ClusterBegin
    \/ ClosureStep
    \/ ClusterDone
    \/ BuildMergeTable
    \/ ElectStep
    \/ BuildEnd
    \/ InitializeEnd

SpecGroupClass == Init /\ [][NextGroupClass]_vars

(* ---------------------------------------------------------------------- *)
(* A merger whose initialize is called again                               *)
(* ---------------------------------------------------------------------- *)
\* Two chains of equal priority make FREE control nodes.
ReinitInputs ==
    IF frozen \/ Len(nodes) >= MaxNodes THEN {}
    ELSE {NewNode(rig, NewName(rig), point,
                  [kind |-> "control", layer |-> FREE]) :
              rig \in {1, 3}, point \in Points}

RegisterReinitNode ==
    /\ err = ""
    /\ \E node \in ReinitInputs : register_node(node)

\* Lines 56-67, on a merger whose initialize has returned and whose nodes
\* have not started the later stages: nothing in initialize tells a second
\* call from the first.
InitializeAgain ==
    /\ pc = "done"
    /\ gen_cur = 1
    /\ runs < MaxRuns
    /\ err = ""
    /\ op' = "initialize"
    /\ frozen' = TRUE
    /\ runs' = runs + 1
    /\ tree' = [i \in 1 .. Len(nodes) |-> nodes[i].point]
    /\ processed' = {}
    /\ l_final' = <<>>
    /\ l_groups' = <<>>
    /\ cur' = 1
    /\ pc' = "scan"
    /\ UNCHANGED <<nodes, final_nodes, groups, err, err_args, pending,
                   merge_set>>
    /\ UNCHANGED <<buildVars, genVars>>
    /\ UNCHANGED stageVars

NextReinit ==
    \/ RegisterReinitNode
    \/ InitializeBegin
    \/ InitializeSkip
    \/ ClusterBegin
    \/ ClosureStep
    \/ ClusterDone
    \/ BuildMergeTable
    \/ ElectStep
    \/ BuildEnd
    \/ InitializeEnd
    \/ InitializeAgain

SpecReinit == Init /\ [][NextReinit]_vars

(* ---------------------------------------------------------------------- *)
(* A merger whose initialize runs to its end                               *)
(* ---------------------------------------------------------------------- *)
\* The steps of NodeMerger.initialize after its first statements.
InitializeStep ==
    \/ InitializeSkip
    \/ ClusterBegin
    \/ ClosureStep
    \/ ClusterDone
    \/ BuildMergeTable
    \/ ElectStep
    \/ BuildEnd
    \/ InitializeEnd

NextTermination ==
    \/ RegisterReinitNode
    \/ InitializeBegin
    \/ InitializeStep

\* initialize is one call: once entered, its next statement is executed.
SpecTermination ==
    Init /\ [][NextTermination]_vars /\ WF_vars(InitializeStep)

(* ---------------------------------------------------------------------- *)
(* Vocabulary of the properties                                            *)
(* ---------------------------------------------------------------------- *)
NodeIds == 1 .. Len(nodes)

MainIds == {n \in NodeIds : is_main(n)}

\* The groups whose build has returned.
BuiltGroups == {l_groups[k] : k \in 1 .. Len(l_groups)}

\* The main nodes whose group has been built.
BuiltMain == UNION {SeqSet(g.main_nodes) : g \in BuiltGroups}

Followers(m) == {f \in MainIds : nodes[f].merged_into = m}

Count(s, x) == Cardinality({k \in 1 .. Len(s) : s[k] = x})

\* Two registered positions within epsilon of each other.
Near(i, j) == RatWithin(tree[i], tree[j], Epsilon)

RECURSIVE ChainOf(_)
\* The nodes linked to a node of S by a chain of registered positions whose
\* consecutive members are within epsilon of each other.
ChainOf(S) ==
    LET T == S \cup {k \in 1 .. Len(tree) : \E j \in S : Near(j, k)}
    IN  IF T = S THEN S ELSE ChainOf(T)

GroupsOf(i) == {k \in 1 .. Len(groups) : i \in SeqSet(groups[k].nodes)}

(* ---------------------------------------------------------------------- *)
(* C1                                                                      *)
(* ---------------------------------------------------------------------- *)
\* C1: once initialize has completed, every registered node is a member of
\* exactly one group, listed once in it, two nodes share a group exactly
\* when a chain of registered positions with steps of at most epsilon links
\* them, and the disjointness assertion of initialize has never failed.
C1_GroupsPartitionByChain ==
    /\ err # "AssertionError: merge_set.isdisjoint(processed)"
    /\ pc = "done" =>
          /\ \A i \in NodeIds :
                /\ Cardinality(GroupsOf(i)) = 1
                /\ \A k \in GroupsOf(i) : Count(groups[k].nodes, i) = 1
                /\ nodes[i].group \in GroupsOf(i)
          /\ \A i, j \in NodeIds :
                (GroupsOf(i) = GroupsOf(j)) <=> (j \in ChainOf({i}))

\* A completed clustering with a group that spans more than epsilon next to
\* nothing else, i.e. a chain of three registered positions.
C1_Witness ==
    /\ pc = "done"
    /\ \E i, j \in NodeIds :
          /\ GroupsOf(i) = GroupsOf(j)
          /\ ~Near(i, j)

(* ---------------------------------------------------------------------- *)
(* C2                                                                      *)
(* ---------------------------------------------------------------------- *)
\* C2: a follower and the master it was merged into never have the same
\* owning rig.
C2_FollowerOfOtherRig ==
    \A f \in MainIds :
        nodes[f].merged_into # None =>
            nodes[f].rig # nodes[nodes[f].merged_into].rig

\* A built group with a follower, in which one rig owns two main nodes.
C2_Witness ==
    \E g \in BuiltGroups :
        \E f, x, y \in SeqSet(g.main_nodes) :
            /\ nodes[f].merged_into # None
            /\ x # y
            /\ nodes[x].rig = nodes[y].rig

(* ---------------------------------------------------------------------- *)
(* C3                                                                      *)
(* ---------------------------------------------------------------------- *)
\* C3: in every merged cluster, the master and its followers are owned by
\* pairwise distinct rigs.
C3_ClusterRigsDistinct ==
    \A m \in MainIds :
        \A x, y \in {m} \cup Followers(m) :
            x # y => nodes[x].rig # nodes[y].rig

(* ---------------------------------------------------------------------- *)
(* C4                                                                      *)
(* ---------------------------------------------------------------------- *)
IsMasterOf(g, n) ==
    /\ nodes[n].merged_into = None
    /\ Count(g.final_nodes, n) = 1
    /\ \A m \in MainIds : Count(nodes[m].merged, n) = 0

IsFollowerOf(g, n) ==
    LET m == nodes[n].merged_into
    IN  /\ m # None
        /\ Count(g.final_nodes, n) = 0
        /\ Count(nodes[m].merged, n) = 1
        /\ \A x \in MainIds \ {m} : Count(nodes[x].merged, n) = 0
        /\ nodes[n].merged = <<>>
        /\ nodes[m].merged_into = None
        /\ Count(g.final_nodes, m) = 1

\* C4: after build, every main node of the group is either a master listed
\* once in the final nodes of the group, or a follower listed once in the
\* merged list of one master and nowhere else; a follower has no followers,
\* and the merged_master of every main node is a master of the group.
C4_ClustersAreDepthOneTrees ==
    \A g \in BuiltGroups :
        \A n \in SeqSet(g.main_nodes) :
            /\ IsMasterOf(g, n) \/ IsFollowerOf(g, n)
            /\ nodes[n].merged_master # None
            /\ nodes[nodes[n].merged_master].merged_into = None
            /\ nodes[n].merged_master \in SeqSet(g.final_nodes)
            /\ nodes[n].merged_master =
                  (IF nodes[n].merged_into # None
                   THEN nodes[n].merged_into ELSE n)

\* A built group with a master of two followers.
C4_Witness ==
    \E g \in BuiltGroups :
        \E m \in SeqSet(g.final_nodes) :
            /\ Len(nodes[m].merged) = 2
            /\ \A f \in SeqSet(nodes[m].merged) : nodes[f].merged_master = m

(* ---------------------------------------------------------------------- *)
(* C5                                                                      *)
(* ---------------------------------------------------------------------- *)
ControlBones == {b \in 1 .. Len(bones) : bones[b].role = "control"}

\* The control bones made by the nodes of the merged cluster of master m.
ClusterBones(m) ==
    {b \in ControlBones : bones[b].maker \in {m} \cup Followers(m)}

GenerationDone == pc = "done" /\ gen_cur > Len(nodes)

C5_State ==
    /\ \A b \in ControlBones : nodes[bones[b].maker].merged_into = None
    /\ \A m \in BuiltMain :
          nodes[m].merged_into = None =>
              /\ Cardinality(ClusterBones(m)) <= 1
              /\ GenerationDone =>
                    /\ ClusterBones(m) = {nodes[m].control_bone}
                    /\ \A f \in Followers(m) :
                          control_bone(f) = nodes[m].control_bone

C5_Step ==
    \A n \in NodeIds :
        nodes[n].merged_master # None =>
            nodes'[n].merged_master = nodes[n].merged_master

\* C5: control bones are made by masters only, at most one per merged
\* cluster and exactly one once the generate_bones stage is over, which is
\* also what control_bone returns on every follower of the cluster; and no
\* step changes a merged_master that merge_done has set.
C5_OneControlBonePerCluster == [](C5_State) /\ [][C5_Step]_vars

\* The stage is over for a cluster with a follower, whose control_bone is
\* the bone its master made.
C5_Witness ==
    /\ GenerationDone
    /\ \E f \in MainIds :
          /\ nodes[f].merged_into # None
          /\ control_bone(f) \in ControlBones
          /\ bones[control_bone(f)].maker = nodes[f].merged_into

(* ---------------------------------------------------------------------- *)
(* C6                                                                      *)
(* ---------------------------------------------------------------------- *)
\* The main nodes of the group are owned by pairwise distinct rigs and each
\* of them can merge into each other.
MutuallyMergeable(g) ==
    \A x, y \in SeqSet(g.main_nodes) :
        x # y => /\ nodes[x].rig # nodes[y].rig
                 /\ can_merge_into(x, y)

\* C6: nodes registered within epsilon of each other share a group, and a
\* group whose main nodes have pairwise distinct rigs and can all merge into
\* each other elects one master, every other main node being its follower;
\* the generate_bones stage then makes one control bone for the group.
C6_MutualMergeElectsOneMaster ==
    /\ pc \in {"scan", "done"} =>
          \A i, j \in NodeIds :
              (Near(i, j) /\ i \in processed) => nodes[i].group = nodes[j].group
    /\ \A g \in BuiltGroups :
          (g.main_nodes # <<>> /\ MutuallyMergeable(g)) =>
              /\ Len(g.final_nodes) = 1
              /\ \A n \in SeqSet(g.main_nodes) \ {g.final_nodes[1]} :
                    nodes[n].merged_into = g.final_nodes[1]
              /\ GenerationDone =>
                    Cardinality({b \in ControlBones :
                        bones[b].maker \in SeqSet(g.main_nodes)}) = 1

\* Three nodes of three rigs, at two positions within epsilon, merged into
\* one cluster whose control bone has been made.
C6_Witness ==
    /\ GenerationDone
    /\ \E g \in BuiltGroups :
          /\ Len(g.main_nodes) = 3
          /\ MutuallyMergeable(g)
          /\ \E x, y \in SeqSet(g.main_nodes) : tree[x] # tree[y]

(* ---------------------------------------------------------------------- *)
(* C7                                                                      *)
(* ---------------------------------------------------------------------- *)
\* A TWEAK node t and a FREE node f of two chains of equal priority, at the
\* same point.
TweakOverFree(t, f) ==
    /\ nodes[t].layer = TWEAK
    /\ nodes[f].layer = FREE
    /\ nodes[t].rig # nodes[f].rig
    /\ chain_priority[nodes[t].rig] = chain_priority[nodes[f].rig]
    /\ nodes[t].point = nodes[f].point

MixedPriority(g) ==
    \E x, y \in SeqSet(g.main_nodes) :
        chain_priority[nodes[x].rig] # chain_priority[nodes[y].rig]

MergeRaised == err = "ValueError: max() arg is an empty sequence"

\* C8: the build of a group with nodes of chains of different priority
\* completes, no node follows a node of a chain of lower priority, and the
\* priority of a master is maximal in its merged cluster.
C8_HigherPriorityWins ==
    /\ MixedPriority(grp) => ~MergeRaised
    /\ \A f \in MainIds :
          nodes[f].merged_into # None =>
              chain_priority[nodes[f].rig]
                  <= chain_priority[nodes[nodes[f].merged_into].rig]

(* ---------------------------------------------------------------------- *)
(* C9                                                                      *)
(* ---------------------------------------------------------------------- *)
\* C9: build never raises for want of a merge target, and the merge table
\* only holds edges from a node to a node it can merge into.
C9_NoTargetNoEdgeNoError ==
    /\ ~MergeRaised
    /\ pc = "elect" =>
          \A m \in DOMAIN merge_table :
              \A n \in merge_table[m] : can_merge_into(n, m)

(* ---------------------------------------------------------------------- *)
(* C10                                                                     *)
(* ---------------------------------------------------------------------- *)
C10_Step ==
    /\ frozen => frozen'
    /\ op' = "register_node" =>
          IF frozen
          THEN /\ err' = "AssertionError: not self.frozen"
               /\ nodes' = nodes
               /\ groups' = groups
               /\ final_nodes' = final_nodes
          ELSE /\ err' = ""
               /\ Len(nodes') = Len(nodes) + 1
               /\ SubSeq(nodes', 1, Len(nodes)) = nodes

\* C10: register_node on a merger that is not frozen appends the node to
\* the registration list; on a frozen merger it fails its assertion and
\* changes neither the list, the groups nor the final nodes; and no step
\* ever clears the frozen flag.
C10_RegisterOnlyBeforeFreeze == [][C10_Step]_vars

\* A registration was refused after initialize had published its groups,
\* the earlier registrations being kept in order.
C10_Witness ==
    /\ op = "register_node"
    /\ err = "AssertionError: not self.frozen"
    /\ Len(nodes) = 2
    /\ groups # <<>>

(* ---------------------------------------------------------------------- *)
(* C19                                                                     *)
(* ---------------------------------------------------------------------- *)
RECURSIVE RegisteredSum(_)
\* The sum of the registered positions of the nodes of S.
RegisteredSum(S) ==
    IF S = {} THEN <<0, 1>>
    ELSE LET x == CHOOSE y \in S : TRUE
         IN  RatAdd(tree[x], RegisteredSum(S \ {x}))

RegisteredMean(S) == RatDivInt(RegisteredSum(S), Cardinality(S))

\* C19: while initialize runs and after it, the position of a master is the
\* mean of the registered positions of the master and its followers, the
\* position of a follower is that of its master, and every other node (a
\* query node, a node whose group is not built yet) is where it was
\* registered; a master without followers stays where it was registered.
C19_MasterAtCentroid ==
    pc \in {"scan", "closure", "build", "elect", "done"} =>
        \A i \in NodeIds :
            LET m == nodes[i].merged_master
            IN  /\ m = None => nodes[i].point = tree[i]
                /\ (m # None /\ m = i) =>
                      /\ nodes[i].point = RegisteredMean({i} \cup Followers(i))
                      /\ Followers(i) = {} => nodes[i].point = tree[i]
                /\ (m # None /\ m # i) =>
                      /\ nodes[i].point = nodes[m].point
                      /\ i \in Followers(m)

\* A master with two followers has moved off its registered position, next
\* to a node of another group that has not moved.
C19_Witness ==
    /\ pc = "done"
    /\ \E m \in MainIds :
          /\ nodes[m].merged_master = m
          /\ Cardinality(Followers(m)) = 2
          /\ nodes[m].point # tree[m]
          /\ \E f \in Followers(m) : tree[f] # tree[m]

(* ---------------------------------------------------------------------- *)
(* C20                                                                     *)
(* ---------------------------------------------------------------------- *)
RECURSIVE OutputOf(_)
\* The masters and then the query nodes of each group of gs, in turn.
OutputOf(gs) ==
    IF gs = <<>> THEN <<>>
    ELSE (Head(gs).final_nodes \o Head(gs).query_nodes) \o OutputOf(Tail(gs))

\* The member of the group that was registered first.
FirstMember(g) ==
    CHOOSE x \in SeqSet(g.nodes) : \A y \in SeqSet(g.nodes) : x <= y

C20_State ==
    /\ pc = "scan" => l_final = OutputOf(l_groups)
    /\ pc = "elect" => l_final = OutputOf(l_groups) \o grp.final_nodes
    /\ pc = "done" =>
          /\ final_nodes = OutputOf(groups)
          /\ \A k, l \in 1 .. Len(groups) :
                k < l => FirstMember(groups[k]) < FirstMember(groups[l])
          /\ \A n \in NodeIds :
                Count(final_nodes, n) =
                    (IF is_main(n) /\ nodes[n].merged_into # None
                     THEN 0 ELSE 1)
          /\ \A k \in 1 .. Len(groups) :
                SeqSet(groups[k].final_nodes) =
                    {n \in SeqSet(groups[k].main_nodes) :
                        nodes[n].merged_into = None}

C20_Step ==
    grp'.final_nodes # grp.final_nodes =>
        \/ grp'.final_nodes = <<>>
        \/ \E best \in NodeIds :
              /\ nodes[best].merged_master = None
              /\ nodes'[best].merged_master = best
              /\ grp'.final_nodes = Append(grp.final_nodes, best)
              /\ l_final' = Append(l_final, best)

\* C20: the output of the merger lists, group after group in the order of
\* the first registered member of each group, the masters of the group and
\* then its query nodes; a follower is never listed, a master and a query
\* node are listed once; and every election appends the elected master both
\* to the output and to the final list of its group, which therefore holds
\* the masters of the group in the order of their election.
C20_OutputOrder == [](C20_State) /\ [][C20_Step]_vars

\* Two groups, the first of which has a query node registered before its
\* master, so that the output is not in the order of registration.
C20_Witness ==
    /\ pc = "done"
    /\ Len(groups) = 2
    /\ groups[1].query_nodes # <<>>
    /\ groups[1].final_nodes # <<>>
    /\ \E k \in 1 .. (Len(final_nodes) - 1) :
          final_nodes[k] > final_nodes[k + 1]

(* ---------------------------------------------------------------------- *)
(* C11                                                                     *)
(* ---------------------------------------------------------------------- *)
GroupClassConflict == err = "MetarigError: Group class conflict"

Incomparable(c, d) == ~issubclass(c, d) /\ ~issubclass(d, c)

C11_Step ==
    (pc = "closure" /\ pending = {} /\ pc' # pc) =>
        /\ GroupClassConflict' <=>
              \E x, y \in merge_set :
                  Incomparable(nodes[x].group_class, nodes[y].group_class)
        /\ pc' = "build" =>
              \A x \in merge_set :
                  issubclass(grp'.group_class, nodes[x].group_class)

\* C11: when initialize closes a cluster, it raises the group class
\* conflict exactly when two members of the cluster have group classes
\* neither of which is a subclass of the other, whatever the names of the
\* members; otherwise the group is made with a class that is a subclass of
\* (or is) the group class of every member.
C11_ConflictIffIncomparable == [][C11_Step]_vars

(* ---------------------------------------------------------------------- *)
(* C12                                                                     *)
(* ---------------------------------------------------------------------- *)
C12_Step ==
    (pc = "closure" /\ GroupClassConflict') =>
        \E x, y \in merge_set :
            /\ nodes[x].group_class = err_args'.group_class
            /\ nodes[y].group_class = err_args'.cls
            /\ base_bone(nodes[x].rig) = err_args'.base_bone
            /\ base_bone(nodes[y].rig) = err_args'.base_bone

\* C12: the arguments of the group class conflict error hold the base bone
\* of a rig with a node of the first conflicting class and the base bone of
\* a rig with a node of the second one.
C12_ConflictNamesBothRigs == [][C12_Step]_vars

(* ---------------------------------------------------------------------- *)
(* C18                                                                     *)
(* ---------------------------------------------------------------------- *)
\* C18: a second call of initialize fails an assertion, so that clustering
\* takes effect once: no node is merged into its master twice, and the
\* published groups and output stay those of the first call.
C18_SecondInitializeRefused ==
    /\ runs >= 2 =>
          /\ pc = "error"
          /\ err = "AssertionError: not self.frozen"
          /\ groups # <<>>
    /\ \A m, f \in NodeIds : Count(nodes[m].merged, f) <= 1

(* ---------------------------------------------------------------------- *)
(* C14                                                                     *)
(* ---------------------------------------------------------------------- *)
Offsets == {k \in 1 .. Len(heap) : IsOffset(heap, k)}

NoContribution(o) == o.log = <<>>

RECURSIVE TotalLen(_)
TotalLen(ss) == IF ss = <<>> THEN 0 ELSE Len(Head(ss)) + TotalLen(Tail(ss))

\* Every bone made so far is held by one generator.
BonesAccounted ==
    Len(bones) = TotalLen([k \in 1 .. Len(heap) |-> heap[k].mch_bones])

\* C14: a ControlBoneParentOffset that never received a contribution makes
\* no bone in generate_bones, and its output bone is the output bone of the
\* parent it wraps.
C14_EmptyOffsetIsTransparent ==
    /\ BonesAccounted
    /\ \A ref \in Offsets :
          (heap[ref].generated /\ NoContribution(heap[ref])) =>
              /\ heap[ref].mch_bones = <<>>
              /\ output_bone(heap, ref) = output_bone(heap, heap[ref].parent)
              /\ output_bone(heap, ref) \in ParentBones

\* The stages have run on a generator without contributions.
C14_Witness ==
    \E ref \in Offsets :
        /\ heap[ref].generated
        /\ heap[ref].parented
        /\ NoContribution(heap[ref])
        /\ op = "parent_bones"

(* ---------------------------------------------------------------------- *)
(* C15                                                                     *)
(* ---------------------------------------------------------------------- *)
\* The calls of add_copy_local_location for the target, out of the log.
CopyCalls(o, target) ==
    LET mine(c) == c.call = "add_copy_local_location" /\ c.target = target
    IN  SelectSeq(o.log, mine)

IsExprCall(c) == c.influence_expr # <<>>
IsLazyCall(c) == c.influence_expr = <<>> /\ c.influence.callable
IsConstCall(c) == c.influence_expr = <<>> /\ ~c.influence.callable

RECURSIVE SumInfluence(_)
SumInfluence(calls) ==
    IF calls = <<>> THEN 0
    ELSE Head(calls).influence.value + SumInfluence(Tail(calls))

\* The entry of the target as the calls logged for it define it.
ExpectedEntry(o, target) ==
    LET calls == CopyCalls(o, target)
        exprs == SelectSeq(calls, IsExprCall)
        lazies == SelectSeq(calls, IsLazyCall)
    IN  << SumInfluence(SelectSeq(calls, IsConstCall)),
           [k \in 1 .. Len(exprs) |-> <<exprs[k].influence_expr, <<>>>>],
           [k \in 1 .. Len(lazies) |-> lazies[k].influence] >>

C15_State ==
    \A ref \in Offsets :
        /\ ~IsOffset(heap, heap[ref].parent)
        /\ \A target \in Targets :
              IF CopyCalls(heap[ref], target) = <<>>
              THEN ~DictHas(heap[ref].copy_local, target)
              ELSE DictGet(heap[ref].copy_local, target)
                       = ExpectedEntry(heap[ref], target)

\* The number of accumulators in which two entries differ.
Changed(v, w) == Cardinality({k \in 1 .. 3 : v[k] # w[k]})

EntryOf(o, target) ==
    IF DictHas(o.copy_local, target) THEN DictGet(o.copy_local, target)
    ELSE <<0, <<>>, <<>>>>

C15_Step ==
    /\ (op' = "wrap" /\ heap # <<>> /\ IsOffset(heap, Len(heap))) =>
          heap' = heap
    /\ op' = "add_copy_local_location" =>
          \E ref \in Offsets :
              /\ \A k \in 1 .. Len(heap) \ {ref} : heap'[k] = heap[k]
              /\ heap'[ref].add_local = heap[ref].add_local
              /\ \E target \in Targets :
                    /\ Changed(EntryOf(heap[ref], target),
                               EntryOf(heap'[ref], target)) = 1
                    /\ \A other \in Targets \ {target} :
                          /\ DictHas(heap'[ref].copy_local, other)
                                = DictHas(heap[ref].copy_local, other)
                          /\ EntryOf(heap'[ref], other)
                                = EntryOf(heap[ref], other)

\* C15: wrap applied to a ControlBoneParentOffset returns it, so that no
\* generator of this class ever wraps another one; a call of
\* add_copy_local_location changes one accumulator of the entry of its
\* target and nothing else; and the entry of every target holds the sum of
\* the constant influences, the expression terms and the callables given
\* for that target, in the order of the calls.
C15_ContributionsAccumulate == [](C15_State) /\ [][C15_Step]_vars

\* A generator wrapped again by a second rig after it had received, for one
\* target, a constant, an expression and another constant.
C15_Witness ==
    /\ op = "wrap"
    /\ \E ref \in Offsets : \E target \in Targets :
          /\ Len(CopyCalls(heap[ref], target)) = 3
          /\ DictGet(heap[ref].copy_local, target)[1] = 3
          /\ Len(DictGet(heap[ref].copy_local, target)[2]) = 1

(* ---------------------------------------------------------------------- *)
(* C16                                                                     *)
(* ---------------------------------------------------------------------- *)
DriverCalls(o) ==
    LET mine(c) == c.call = "add_location_driver" IN SelectSeq(o.log, mine)

\* An orientation with every component quantized to 4 decimal digits.
Quantized(orientation) ==
    [k \in 1 .. Len(orientation) |-> Round4(orientation[k])]

\* The quantized orientations asked for, and the first orientation asked
\* for with a given quantized value.
DriverKeys(o) ==
    {Quantized(DriverCalls(o)[k].orientation) : k \in 1 .. Len(DriverCalls(o))}

FirstOrientation(o, key) ==
    LET calls == DriverCalls(o)
        first == CHOOSE k \in 1 .. Len(calls) :
                     /\ Quantized(calls[k].orientation) = key
                     /\ \A j \in 1 .. (k - 1) :
                           Quantized(calls[j].orientation) # key
    IN  calls[first].orientation

BoneOf(name) == bones[name[2]]

C16_Generated(ref) ==
    LET o == heap[ref]
        made == o.mch_bones
    IN  /\ Len(made) = (IF DriverCalls(o) = <<>> THEN 1
                        ELSE Cardinality(DriverKeys(o)))
        /\ \A j, k \in 1 .. Len(made) : j # k => made[j] # made[k]
        /\ DriverCalls(o) # <<>> =>
              /\ \A k \in 1 .. Len(made) :
                    Quantized(BoneOf(made[k]).orientation) \in DriverKeys(o)
              /\ \A k \in 1 .. Len(made) :
                    BoneOf(made[k]).orientation =
                        FirstOrientation(o,
                            Quantized(BoneOf(made[k]).orientation))
              /\ \A j, k \in 1 .. Len(made) :
                    j # k => Quantized(BoneOf(made[j]).orientation)
                                # Quantized(BoneOf(made[k]).orientation)
        /\ output_bone(heap, ref) = made[Len(made)]

C16_Parented(ref) ==
    LET o == heap[ref]
        made == o.mch_bones
    IN  /\ DictGet(bone_parent, made[1]) = output_bone(heap, o.parent)
        /\ \A k \in 2 .. Len(made) :
              DictGet(bone_parent, made[k]) = made[k - 1]

\* C16: a generator with a contribution makes, in generate_bones, one bone
\* for each distinct quantized orientation given to add_location_driver,
\* oriented as the first orientation given with that quantized value, or
\* one bone if it only has weighted contributions; parent_bones parents the
\* first bone to the output bone of the wrapped parent and every other bone
\* to the bone before it, and the output bone is the last bone.
C16_OneBonePerOrientationKey ==
    \A ref \in Offsets :
        (heap[ref].generated /\ ~NoContribution(heap[ref])) =>
            /\ C16_Generated(ref)
            /\ heap[ref].parented => C16_Parented(ref)

\* A generator given three orientations, two of which quantize to the same
\* value, has made and parented two bones.
C16_Witness ==
    \E ref \in Offsets :
        /\ heap[ref].parented
        /\ Len(DriverCalls(heap[ref])) = 3
        /\ Cardinality(DriverKeys(heap[ref])) = 2
        /\ DriverCalls(heap[ref])[1].orientation
              # DriverCalls(heap[ref])[2].orientation
        /\ Quantized(DriverCalls(heap[ref])[1].orientation)
              = Quantized(DriverCalls(heap[ref])[2].orientation)

(* ---------------------------------------------------------------------- *)
(* C17                                                                     *)
(* ---------------------------------------------------------------------- *)
\* The merged siblings of the master m, m first and then its followers in
\* the order in which they were merged.
Cluster(m) == <<m>> \o nodes[m].merged

BaseName(n) == nodes[n].name_split[1]

TopIcon(m) ==
    CHOOSE i \in {nodes[n].icon : n \in SeqSet(Cluster(m))} :
        \A n \in SeqSet(Cluster(m)) : nodes[n].icon <= i

\* The first sibling of the cluster with the highest icon.
FirstTop(m) ==
    Cluster(m)[CHOOSE k \in 1 .. Len(Cluster(m)) :
                   /\ nodes[Cluster(m)[k]].icon = TopIcon(m)
                   /\ \A j \in 1 .. (k - 1) :
                         nodes[Cluster(m)[j]].icon # TopIcon(m)]

RECURSIVE SizeSum(_)
SizeSum(S) ==
    IF S = {} THEN <<0, 1>>
    ELSE LET n == CHOOSE x \in S : TRUE
         IN  RatAdd(nodes[n].size, SizeSum(S \ {n}))

\* The mean of the sizes the nodes of S have before the step.
SizeMean(S) == RatDivInt(SizeSum(S), Cardinality(S))

\* The step is the initialize of the master m.
InitializeOf(m) ==
    /\ op' = "node.initialize"
    /\ init_cur' = init_cur + 1
    /\ final_nodes[init_cur + 1] = m
    /\ is_master_node(nodes, m)

\* C17 as stated: after the initialize of a master, its size is the mean of
\* the sizes of the merged siblings of one base name that have the highest
\* icon of the cluster; siblings of a lower icon do not contribute.
C17_Step ==
    \A m \in NodeIds :
        InitializeOf(m) =>
            \E n \in SeqSet(Cluster(m)) :
                nodes'[m].size =
                    SizeMean({k \in SeqSet(Cluster(m)) :
                                 /\ nodes[k].icon = TopIcon(m)
                                 /\ BaseName(k) = BaseName(n)})

C17_SizeIsMeanOfTopIconMirrors == [][C17_Step]_vars

\* C17 amended: after the initialize of a master, its size is the mean of
\* the sizes of all the merged siblings that have the base name of the
\* first sibling with the highest icon of the cluster, whatever their own
\* icon; the siblings of another base name do not contribute.
C17_AmendedStep ==
    \A m \in NodeIds :
        InitializeOf(m) =>
            nodes'[m].size =
                SizeMean({k \in SeqSet(Cluster(m)) :
                             BaseName(k) = BaseName(FirstTop(m))})

C17_SizeIsMeanOfMirrorsOfBest == [][C17_AmendedStep]_vars

\* A master was initialized whose cluster has a follower of the highest
\* icon with size 1, a mirror of it of a lower icon, and a sibling of
\* another base name: the size of the master is 3/2.
C17_Witness ==
    /\ op = "node.initialize"
    /\ init_cur >= 1
    /\ LET m == final_nodes[init_cur]
       IN  /\ nodes[m].size = <<3, 2>>
           /\ Len(Cluster(m)) = 3
           /\ \E a, b, c \in SeqSet(Cluster(m)) :
                 /\ nodes[a].icon = ICON_FREE
                 /\ nodes[b].icon = ICON_TWEAK
                 /\ BaseName(a) = BaseName(b)
                 /\ BaseName(c) # BaseName(a)
                 /\ a # m
                 /\ nodes[a].size = <<1, 1>>

(* ---------------------------------------------------------------------- *)
(* C13                                                                     *)
(* ---------------------------------------------------------------------- *)
RECURSIVE Description(_)
\* What a parent generator is made of: its class, its upstream parent and
\* its contribution maps.
Description(ref) ==
    IF heap[ref].cls = "ControlBoneParentOrg"
    THEN <<"org", heap[ref].output_bone, {}, {}>>
    ELSE <<"offset", Description(heap[ref].parent),
           SeqSet(heap[ref].copy_local), SeqSet(heap[ref].add_local)>>

\* The parent the rig of node n asks for.
Requested(n) ==
    LET org == <<"org", <<"ORG", IF nodes[n].rig = 4 THEN 6 ELSE 5>>, {}, {}>>
        items == nodes[n].falloff.items
    IN  IF ~nodes[n].falloff.wrapped THEN org
        ELSE <<"offset", org,
               {<<items[k][1], <<items[k][2], <<>>, <<>>>>>> :
                    k \in 1 .. Len(items)},
               {}>>

\* The nodes for which the master m has built a parent.
Served(m) ==
    {n \in NodeIds : nodes[n].merged_master = m /\ nodes[n].node_parent # None}

CachedBy(m) == SeqSet(nodes[m].parent_subrig_cache)

\* C13: the parents build_parent_for_node has returned on one master are
\* the identical object for two requests of equal description and distinct
\* objects for requests that differ; the parent cache of the master holds
\* exactly the objects returned, no two of them equal, and
\* enable_component was called once on each of them (and on nothing else).
C13_ParentCacheDeduplicates ==
    /\ \A m \in NodeIds :
          LET cache == nodes[m].parent_subrig_cache
          IN  /\ \A a, b \in Served(m) :
                    (Requested(a) = Requested(b))
                        <=> (nodes[a].node_parent = nodes[b].node_parent)
              /\ \A a \in Served(m) :
                    Description(nodes[a].node_parent) = Requested(a)
              /\ CachedBy(m) = {nodes[a].node_parent : a \in Served(m)}
              /\ \A i, j \in 1 .. Len(cache) :
                    i # j => /\ cache[i] # cache[j]
                             /\ Description(cache[i]) # Description(cache[j])
    /\ \A ref \in 1 .. Len(heap) :
          heap[ref].enabled =
              IF \E m \in NodeIds : ref \in CachedBy(m) THEN 1 ELSE 0

\* A master has served three mirror siblings: two asked for equal parents
\* and share one object, the third got another one.
C13_Witness ==
    \E m \in NodeIds :
        /\ Cardinality(Served(m)) = 3
        /\ Len(nodes[m].parent_subrig_cache) = 2
        /\ \E a, b \in Served(m) :
              /\ a # b
              /\ nodes[a].falloff.items # <<>>
              /\ nodes[a].node_parent = nodes[b].node_parent

\* A master has served two siblings whose contributions differ in weight.
DifferentWeightsServed ==
    \E m \in NodeIds : \E a, b \in Served(m) :
        /\ nodes[a].falloff.items # <<>>
        /\ nodes[b].falloff.items # <<>>
        /\ nodes[a].node_parent # nodes[b].node_parent

(* ---------------------------------------------------------------------- *)
(* C22                                                                     *)
(* ---------------------------------------------------------------------- *)
\* The step is an iteration of the election loop that finalizes a master.
Elects(best) ==
    /\ pc = "elect"
    /\ bpending # {}
    /\ pc' = "elect"
    /\ grp'.final_nodes = Append(grp.final_nodes, best)

C22_Step ==
    \A best \in NodeIds :
        Elects(best) =>
            /\ best \in bpending
            /\ \A n \in bpending :
                  Cardinality(merge_table[n]) <= Cardinality(merge_table[best])
            /\ merge_table[best] \subseteq bpending \ {best}
            /\ SeqSet(nodes'[best].merged) = merge_table[best]
            /\ Len(nodes'[best].merged) = Cardinality(merge_table[best])
            /\ \A f \in merge_table[best] : nodes'[f].merged_into = best
            /\ bpending' = bpending \ ({best} \cup merge_table[best])
            /\ \A n \in DOMAIN merge_table' : merge_table'[n] \subseteq bpending'

\* The masters of a group, in the order of their election, have follower
\* counts that do not increase.
FollowerCountsDescend(g) ==
    \A i, j \in 1 .. Len(g.final_nodes) :
        i < j => Len(nodes[g.final_nodes[i]].merged)
                    >= Len(nodes[g.final_nodes[j]].merged)

C22_State ==
    /\ \A k \in 1 .. Len(l_groups) : FollowerCountsDescend(l_groups[k])
    /\ pc = "elect" => FollowerCountsDescend(grp)

\* C22: the node finalized by an iteration of the election loop has the
\* largest pending-child set of all pending nodes; its followers are its
\* pending children; after the iteration no pending-child set holds a node
\* that is no longer pending; the masters of a group are output with
\* follower counts that do not increase.
C22_GreedyElection == [](C22_State) /\ [][C22_Step]_vars

\* A group of four nodes was built with a master of two followers followed
\* by a master without followers.
C22_Witness ==
    /\ pc = "done"
    /\ \E k \in 1 .. Len(groups) :
          /\ Len(groups[k].final_nodes) = 2
          /\ Len(nodes[groups[k].final_nodes[1]].merged) = 2
          /\ Len(nodes[groups[k].final_nodes[2]].merged) = 0

(* ---------------------------------------------------------------------- *)
(* C29                                                                     *)
(* ---------------------------------------------------------------------- *)
\* The main nodes of the group of m that belong to the rig of m.
RigMates(m) ==
    {n \in NodeIds : /\ is_main(n)
                     /\ nodes[n].group = nodes[m].group
                     /\ nodes[n].rig = nodes[m].rig}

\* C29: a follower is allowed to merge into its master, and no node of the
\* master's rig in the cluster that the follower is allowed to merge into
\* has a higher merge priority for the follower than the master.
C29_FollowerJoinsBestAllowedTarget ==
    \A f \in NodeIds :
        nodes[f].merged_into # None =>
            LET m == nodes[f].merged_into
            IN  /\ can_merge_into(f, m)
                /\ \A n \in RigMates(m) :
                      can_merge_into(f, n) =>
                          get_merge_priority(f, n) <= get_merge_priority(f, m)

\* A FREE node follows a FREE master although a TWEAK node of the master's
\* rig, registered before the master, is in the cluster too.
C29_Witness ==
    /\ pc = "done"
    /\ \E f, n \in NodeIds :
          /\ nodes[f].merged_into # None
          /\ n \in RigMates(nodes[f].merged_into)
          /\ n < nodes[f].merged_into
          /\ can_merge_into(f, n)
          /\ get_merge_priority(f, n)
                < get_merge_priority(f, nodes[f].merged_into)

(* ---------------------------------------------------------------------- *)
(* C21                                                                     *)
(* ---------------------------------------------------------------------- *)
\* The nodes whose group has been built.
Built(n) == nodes[n].merged_master # None

\* The callbacks a master with the followers F (in the order in which they
\* were attached) receives: merge_from for each, then merge_done when every
\* follower has been told merge_into.
MasterCalls(F) ==
    [k \in 1 .. Len(F) |-> <<"merge_from", F[k], 0, 0>>]
        \o << <<"merge_done", None, None, Len(F)>> >>

\* The callbacks a follower of the master m receives: merge_into, then
\* merge_done from m when m.merged_master is set and m has all followers.
FollowerCalls(m) ==
    << <<"merge_into", m, 0, 0>>,
       <<"merge_done", m, m, Len(nodes[m].merged)>> >>

\* C21: a master receives merge_from once for each follower and then
\* merge_done once; each follower receives merge_into once, before the
\* master's merge_done, and then merge_done once, from the master's
\* cascade, when the master's merged_master is set and all followers are
\* attached; a node whose group is not built and a query node have
\* received nothing.
C21_MergeCallbacks ==
    \A n \in NodeIds :
        IF ~is_main(n) \/ (~Built(n) /\ nodes[n].merged_into = None)
        THEN nodes[n].calls = <<>>
        ELSE IF nodes[n].merged_into = None
        THEN /\ nodes[n].calls = MasterCalls(nodes[n].merged)
             /\ \A j, k \in 1 .. Len(nodes[n].merged) :
                   j # k => nodes[n].merged[j] # nodes[n].merged[k]
        ELSE /\ nodes[n].calls = FollowerCalls(nodes[n].merged_into)
             /\ Count(nodes[nodes[n].merged_into].merged, n) = 1

\* A master with a follower and a query node of its group, all built.
C21_Witness ==
    /\ pc = "done"
    /\ \E m, q \in NodeIds :
          /\ Len(nodes[m].merged) = 1
          /\ Len(nodes[m].calls) = 2
          /\ ~is_main(q)
          /\ nodes[q].group = nodes[m].group
          /\ \A f \in SeqSet(nodes[m].merged) : Len(nodes[f].calls) = 2

(* ---------------------------------------------------------------------- *)
(* C27                                                                     *)
(* ---------------------------------------------------------------------- *)
C27_Step ==
    /\ (pc = "closure" /\ pending # {} /\ pc' = "closure") =>
          /\ pending' \cap merge_set = {}
          /\ merge_set' = merge_set \cup pending'
          /\ pending' = {} => merge_set' = merge_set
    /\ (pc = "elect" /\ bpending # {} /\ pc' = "elect") =>
          /\ bpending' \subseteq bpending
          /\ bpending' # bpending
          /\ Len(grp'.final_nodes) = Len(grp.final_nodes) + 1

C27_State ==
    /\ pc = "closure" => Cardinality(merge_set) <= Len(nodes)
    /\ pc = "elect" =>
          Len(grp.final_nodes) + Cardinality(bpending) <= Len(grp.main_nodes)

\* C27: NodeMerger.initialize comes to an end (it returns or raises): each
\* iteration of the closure loop adds only nodes that were not in the
\* cluster and the loop stops when none is added; each iteration of the
\* election loop removes a node from pending, so that the iterations are
\* no more than the main nodes of the group.
C27_InitializeTerminates ==
    /\ [](C27_State)
    /\ [][C27_Step]_vars
    /\ (frozen ~> (pc = "done" \/ pc = "error"))

\* initialize has returned after a closure loop that reached a node which
\* is not within epsilon of the first, and an election that made one
\* master of the three nodes.
C27_Witness ==
    /\ pc = "done"
    /\ Len(nodes) = 3
    /\ \E k \in 1 .. Len(groups) :
          /\ Len(groups[k].nodes) = 3
          /\ Len(groups[k].final_nodes) = 1
          /\ \E i, j \in SeqSet(groups[k].nodes) : ~Near(i, j)

(* ---------------------------------------------------------------------- *)
(* C30                                                                     *)
(* ---------------------------------------------------------------------- *)
\* The control nodes on which find_mirror_siblings has been called.
Mirrored == {n \in MainIds : nodes[n].mirror_siblings # <<>>}

\* The merged siblings of n that have the base name of n.
SameBase(n) ==
    {s \in SeqSet(get_merged_siblings(nodes, n)) :
        nodes[s].name_split[1] = nodes[n].name_split[1]}

\* A name with the base of n and a side or a front/back side opposite to
\* that of n.
Flipped(n, m) ==
    /\ nodes[m].name_split[1] = nodes[n].name_split[1]
    /\ nodes[m].name_split # nodes[n].name_split
    /\ nodes[m].name_split[2] \in
          {nodes[n].name_split[2], -nodes[n].name_split[2]}
    /\ nodes[m].name_split[3] \in
          {nodes[n].name_split[3], -nodes[n].name_split[3]}

C30_TableExact(n) ==
    /\ SeqSet(DictValues(nodes[n].mirror_siblings)) = SameBase(n)
    /\ DictGet(nodes[n].mirror_siblings, nodes[n].name_split) = n
    /\ ~MirrorAssertFailed(nodes, n)

C30_BestMirrorFlipped(n) ==
    LET mirror == get_best_mirror(nodes, n)
    IN  mirror # None =>
           /\ mirror # n
           /\ mirror \in SeqSet(get_merged_siblings(nodes, n))
           /\ Flipped(n, mirror)

\* C30: after merge_done the mirror_siblings of every control node hold
\* exactly the merged siblings that have its base name and give the node
\* itself under its own decomposed name, so that the assertion of
\* find_mirror_siblings does not fail; get_best_mirror returns None or
\* another merged sibling of the same base name and a flipped side.
C30_MirrorSiblings ==
    \A n \in Mirrored : C30_TableExact(n) /\ C30_BestMirrorFlipped(n)

\* The same when no two merged siblings have one decomposed name.
C30_DistinctNames ==
    \A n \in Mirrored :
        (\A a, b \in SeqSet(get_merged_siblings(nodes, n)) :
            nodes[a].name_split = nodes[b].name_split => a = b)
        => C30_TableExact(n) /\ C30_BestMirrorFlipped(n)

\* get_best_mirror finds the mirror of a node of a cluster built from nodes
\* of different names.
C30_MirrorFound ==
    /\ pc = "done"
    /\ \E n \in Mirrored : get_best_mirror(nodes, n) # None

\* Two nodes of two rigs with one name have merged and the assertion has
\* failed.
C30_SameNameMerged ==
    /\ err = "AssertionError: mirror_siblings[name_split] is self"
    /\ Len(nodes) = 2
    /\ nodes[1].rig # nodes[2].rig
    /\ nodes[1].name = nodes[2].name
    /\ nodes[1].merged_into = 2 \/ nodes[2].merged_into = 1

(* ---------------------------------------------------------------------- *)
(* C23                                                                     *)
(* ---------------------------------------------------------------------- *)
QueryIds == NodeIds \ MainIds

\* The query nodes whose initialize has returned.
Initialized ==
    {final_nodes[k] : k \in 1 .. init_cur} \cap QueryIds

\* The masters of the cluster of node q.
MastersOf(q) == SeqSet(groups[nodes[q].group].final_nodes)

C23_NeverMerged ==
    /\ \A q \in QueryIds :
          /\ nodes[q].merged_into = None
          /\ nodes[q].merged = <<>>
          /\ nodes[q].merged_master = None
    /\ \A n \in MainIds :
          /\ nodes[n].merged_into \notin QueryIds
          /\ SeqSet(nodes[n].merged) \cap QueryIds = {}
    /\ \A k \in 1 .. Len(l_groups) :
          SeqSet(l_groups[k].final_nodes) \cap QueryIds = {}
    /\ pc = "elect" =>
          /\ DOMAIN merge_table \cap QueryIds = {}
          /\ \A n \in DOMAIN merge_table : merge_table[n] \cap QueryIds = {}

C23_Lowest(q) ==
    LET m == query_merged_master(nodes, q)
    IN  /\ m.raised = ""
        /\ m.value \in MastersOf(q)
        /\ \A o \in MastersOf(q) : nodes[m.value].layer <= nodes[o].layer

C23_Highest(q) ==
    LET m == query_merged_master(nodes, q)
    IN  /\ m.raised = ""
        /\ m.value \in MastersOf(q)
        /\ \A o \in MastersOf(q) : nodes[m.value].layer >= nodes[o].layer

\* C23: a query node is never a master, a follower or a merge target; after
\* its initialize the merged_master of a ControlQueryNode is a master of
\* its cluster of the lowest layer among the masters of the cluster, and
\* the merged_master of a PositionQueryNode is one of the highest layer.
\* The cluster is taken to have a master.
C23_QueryNodeResolves ==
    /\ C23_NeverMerged
    /\ \A q \in Initialized :
          MastersOf(q) # {} =>
             IF nodes[q].kind = "cquery" THEN C23_Lowest(q) ELSE C23_Highest(q)

\* The part of C23 on ControlQueryNode.
C23_ControlQueryResolves ==
    /\ C23_NeverMerged
    /\ \A q \in Initialized :
          (MastersOf(q) # {} /\ nodes[q].kind = "cquery") => C23_Lowest(q)

\* A ControlQueryNode has resolved the FREE master of a cluster that has a
\* TWEAK master registered before it.
C23_ControlQueryWitness ==
    \E q \in Initialized, a, b \in MainIds :
        /\ nodes[q].kind = "cquery"
        /\ {a, b} \subseteq MastersOf(q)
        /\ a < b
        /\ nodes[a].layer = TWEAK
        /\ nodes[b].layer = FREE
        /\ query_merged_master(nodes, q).value = b

\* The initialize of a PositionQueryNode has returned in a cluster that has
\* a master.
C23_PositionQueryInitialized ==
    \E q \in Initialized : nodes[q].kind = "pquery" /\ MastersOf(q) # {}

(* ---------------------------------------------------------------------- *)
(* C28                                                                     *)
(* ---------------------------------------------------------------------- *)
DistinctNames ==
    \A i, j \in NodeIds : nodes[i].name = nodes[j].name => i = j

\* C28: the masters of a group, the order of their election and the master
\* of every follower are the same in two generations that register the same
\* nodes, of pairwise different names, in different orders.
C28_ResultIndependentOfOrder ==
    (previous.recorded /\ DistinctNames) =>
        /\ pc # "error"
        /\ pc = "done" => MergeResult = previous.result

\* The same without the condition on the names.
C28_AnyNames ==
    (previous.recorded /\ pc = "done") => MergeResult = previous.result

\* The second generation has registered two nodes of different names and
\* rigs in the reverse order; each is the only target of the other, and the
\* node of the earlier name, registered last, is the master again.
C28_Witness ==
    /\ previous.recorded
    /\ DistinctNames
    /\ pc = "done"
    /\ Len(nodes) = 2
    /\ \A i \in 1 .. 2 :
          previous.order[i] = <<nodes[3 - i].rig, nodes[3 - i].name>>
    /\ NameLess(nodes[2].name, nodes[1].name)
    /\ nodes[1].merged_into = 2
    /\ MergeResult = previous.result

(* ---------------------------------------------------------------------- *)
(* C24                                                                     *)
(* ---------------------------------------------------------------------- *)
RECURSIVE PathTo(_)
\* The rigs from the top of the hierarchy down to a rig.
PathTo(rig) ==
    IF rig = None THEN <<>> ELSE PathTo(rigify_parent[rig]) \o <<rig>>

IsSkinRig(rig) == rig \in BaseSkinRigs

\* The skin rigs from the outermost skin ancestor of a rig down to the rig.
SkinPath(rig) == SelectSeq(PathTo(rig), IsSkinRig)

\* The nodes for which build_parent_for_node has been called.
Parented == {n \in MainIds : nodes[n].parent_calls # <<>>}

C24_Calls(n) ==
    LET c == nodes[n].parent_calls
        expected == SkinPath(nodes[n].rig)
    IN  /\ Len(c) = Len(expected) + 1
        /\ c[1][1] = None
        /\ \A k \in 1 .. Len(expected) :
              /\ c[k + 1][1] = expected[k]
              /\ c[k + 1][2] = c[k][3]

C24_Default(n) ==
    ~nodes[n].falloff.wrapped =>
        /\ nodes[n].node_parent # None
        /\ heap[nodes[n].node_parent].cls = "ControlBoneParentOrg"
        /\ heap[nodes[n].node_parent].output_bone =
              rig_parent_bone(nodes[n].rig)
        /\ \A k \in 2 .. Len(nodes[n].parent_calls) :
              nodes[n].parent_calls[k][3] = nodes[n].parent_calls[k][2]

\* C24: build_parent_for_node takes the primary parent from the rig of the
\* node and then calls extend_control_node_parent once on every skin rig
\* from the outermost skin ancestor down to the rig of the node, in that
\* order, each call receiving the result of the one before; rigs that are
\* no skin rigs are passed over.  When all the rigs keep the hooks of
\* BaseSkinRig the parent of the node is a ControlBoneParentOrg of the
\* parent bone of its rig.
C24_ParentBuiltThroughSkinRigs ==
    \A n \in Parented : C24_Calls(n) /\ C24_Default(n)

\* The parents of a node of the basic chain and of a wrapped node of the
\* stretchy chain have been built: three calls each, the last of which has
\* returned a new object for the node of the stretchy chain.
C24_Witness ==
    \E a, b \in Parented :
        /\ nodes[a].rig = 1
        /\ nodes[b].rig = 3
        /\ nodes[b].falloff.wrapped
        /\ [k \in 1 .. 3 |-> nodes[a].parent_calls[k + 1][1]] = <<7, 5, 1>>
        /\ [k \in 1 .. 3 |-> nodes[b].parent_calls[k + 1][1]] = <<7, 5, 3>>
        /\ nodes[b].parent_calls[4][3] # nodes[b].parent_calls[4][2]
        /\ heap[nodes[a].node_parent].output_bone = rig_parent_bone(1)

(* ---------------------------------------------------------------------- *)
(* C26                                                                     *)
(* ---------------------------------------------------------------------- *)
\* The masters whose generate_bones has run.
Generated == {m \in MainIds : nodes[m].control_bone # None}

\* The bones with the role "reparent" made by the master m.
ReparentBonesOf(m) ==
    {b \in 1 .. Len(bones) :
        bones[b].maker = m /\ bones[b].role = "reparent"}

C26_Recorded(m) ==
    LET requests == nodes[m].reparent_requests
    IN  /\ SeqSet(requests) = SeqSet(nodes[m].requested)
        /\ \A i, j \in 1 .. Len(requests) :
              (requests[i] = requests[j]
                  \/ ParentEq(heap, requests[i], requests[j])) => i = j
        /\ SeqSet(requests) \subseteq SeqSet(nodes[m].parent_subrig_cache)
        /\ \A p \in SeqSet(requests) : DictHas(nodes[m].parent_subrig_names, p)

C26_Bones(m) ==
    LET requests == SeqSet(nodes[m].reparent_requests)
        own == nodes[m].node_parent
    IN  /\ \A p \in requests :
              /\ get_reparent_bone(nodes, m, p).raised = ""
              /\ bones[get_reparent_bone(nodes, m, p).value].maker = m
              /\ Count(nodes[m].reparent_bones,
                       <<p, get_reparent_bone(nodes, m, p).value>>) = 1
              /\ Cardinality({k \in 1 .. Len(nodes[m].reparent_bones) :
                                 nodes[m].reparent_bones[k][1] = p}) = 1
        /\ \A p, q \in requests :
              get_reparent_bone(nodes, m, p).value =
                  get_reparent_bone(nodes, m, q).value => p = q
        /\ Cardinality(ReparentBonesOf(m)) =
              Cardinality(IF nodes[m].use_mix_parent THEN requests
                          ELSE requests \ {own})
        /\ ~nodes[m].use_mix_parent =>
              /\ get_reparent_bone(nodes, m, own).raised = ""
              /\ get_reparent_bone(nodes, m, own).value = nodes[m].control_bone

C26_WitnessControl ==
    \E m \in Generated :
        /\ ~nodes[m].use_mix_parent
        /\ nodes[m].reparent_requests = <<nodes[m].node_parent>>
        /\ ReparentBonesOf(m) = {}

(* ---------------------------------------------------------------------- *)
(* C25: compile_driver                                                      *)
(* ---------------------------------------------------------------------- *)
\* The drivers rig_bones has made, each with the terms it was compiled from
DriversMade ==
    UNION { SeqSet(heap[ref].drivers) : ref \in 1 .. Len(heap) }

\* The expression of term k of the driver d, and the variables given with it
TermExpr(d, k) == d.items[k][1]

TermVars(d, k) == d.items[k][2]

\* The names the expression of term k uses
UsedNames(d, k) ==
    { TermExpr(d, k)[p][2] :
        p \in { q \in 1 .. Len(TermExpr(d, k)) : TermExpr(d, k)[q][1] = "$" } }

SlotNames(d) == { d.variables[i][1] : i \in 1 .. Len(d.variables) }

\* The slot of the variable map that holds the descriptor
SlotOf(d, desc) ==
    CHOOSE s \in SlotNames(d) : DictGet(d.variables, s) = desc

\* Term k with every placeholder replaced by the slot of its descriptor
SubstitutedTerm(d, k) ==
    [p \in 1 .. Len(TermExpr(d, k)) |->
        IF TermExpr(d, k)[p][1] = "$"
        THEN Text(SlotOf(d, DictGet(TermVars(d, k), TermExpr(d, k)[p][2])))
        ELSE TermExpr(d, k)[p]]

RECURSIVE SumOfTerms(_, _)
\* (term k)+(term k+1)+...
SumOfTerms(d, k) ==
    <<Text(<<"(">>)>> \o SubstitutedTerm(d, k) \o <<Text(<<")">>)>>
    \o (IF k < Len(d.items)
        THEN <<Text(<<"+">>)>> \o SumOfTerms(d, k + 1)
        ELSE <<>>)

\* No two slots hold equal descriptors (and no two slots have one name)
C25_SlotsDiffer(d) ==
    \A i, j \in 1 .. Len(d.variables) :
        i # j => /\ d.variables[i][2] # d.variables[j][2]
                 /\ d.variables[i][1] # d.variables[j][1]

\* Every used variable has a slot with its descriptor, and the slots hold
\* the descriptors of used variables only
C25_UsedOnly(d) ==
    { d.variables[i][2] : i \in 1 .. Len(d.variables) }
        = UNION { { DictGet(TermVars(d, k), n) : n \in UsedNames(d, k) }
                  : k \in 1 .. Len(d.items) }

\* One name given different descriptors in two terms gets different slots
C25_Renamed(d) ==
    \A k1, k2 \in 1 .. Len(d.items) :
        \A n \in UsedNames(d, k1) \cap UsedNames(d, k2) :
            DictGet(TermVars(d, k1), n) # DictGet(TermVars(d, k2), n)
                => SlotOf(d, DictGet(TermVars(d, k1), n))
                       # SlotOf(d, DictGet(TermVars(d, k2), n))

\* The final expression is the sum of the substituted terms
C25_Sum(d) ==
    d.expression = IF Len(d.items) = 1 THEN SubstitutedTerm(d, 1)
                   ELSE SumOfTerms(d, 1)

\* C25: compile_driver applied to a non-empty list of (expression,
\* variables) terms returns a variable map in which no two slots hold equal
\* descriptors, every placeholder used by a term is substituted by a slot
\* whose descriptor is the one supplied for it in that term, different
\* descriptors supplied under one name in different terms get different
\* slot names, variables their term's expression does not use are omitted,
\* and the final expression is the sum of all substituted terms.
C25_CompileDriver ==
    \A d \in DriversMade :
        /\ d.items # <<>>
        /\ C25_SlotsDiffer(d)
        /\ C25_UsedOnly(d)
        /\ C25_Renamed(d)
        /\ C25_Sum(d)

\* A driver of three terms: "x" stands for two descriptors, so a slot was
\* renamed to "x_1", and a variable that its term does not use was omitted.
C25_Witness ==
    \E d \in DriversMade :
        /\ Len(d.items) = 3
        /\ Len(d.variables) = 2
        /\ NameX1 \in SlotNames(d)
        /\ \E k \in 1 .. 3 :
              \E v \in SeqSet(TermVars(d, k)) :
                  /\ v[1] \notin UsedNames(d, k)
                  /\ \A i \in 1 .. 2 : d.variables[i][2] # v[2]

\* A copy-location constraint whose constant influence became a term of its
\* driver
C25_WitnessInfluence ==
    \E d \in DriversMade :
        /\ d.prop = "influence"
        /\ Len(d.items) = 2
        /\ d.items[2] = <<Str(1), <<>>>>
        /\ d.expression = SumOfTerms(d, 1)

====
